---------------------------- MODULE Spec2Model ----------------------------
(*
 * Verification model of rist-rs.
 *
 * Part 1: the reorder ring buffer, ReorderRingBuffer<S, P> of
 * crates/rist-rs-util/src/reorder/ring/mod.rs.  A packet is represented by
 * its sequence number (the test packet of ring/test.rs carries nothing
 * else).  The sequence type is u8, the narrowest SequenceNumber.
 *
 * Part 2: the bounded channel of crates/rist-rs-util/src/channel/mpmc.rs,
 * at the level of its single accesses to shared memory, with one sending
 * and one receiving thread.
 *
 * Part 3: the message-stream acceptor and connector of
 * crates/rist-rs-buffers/src/stream/message/non_blocking.rs with their
 * socket and the user of their streams.
 *
 * Each part has its own variables and its own specification (Spec,
 * SpecChannel, SpecStreams).
 *)
EXTENDS Integers, Sequences, FiniteSets, TLC

(***************************************************************************)
(* Bounds of the model                                                     *)
(***************************************************************************)

\* len passed to ReorderRingBuffer::new
Capacity == 3

\* number of operations (put / next_event / skip_to_next) on one ring
MaxOps == 5

(***************************************************************************)
(* Sequence numbers (S = u8)                                               *)
(***************************************************************************)

SeqBits == 8

SeqMod == 2 ^ SeqBits

\* S::max_value()
max_value == SeqMod - 1

SeqNums == 0 .. max_value

\* Option::None for an Option<P> or an Option<S>
None == -1

wrapping_add(a, b) == (a + b) % SeqMod

wrapping_sub(a, b) == (a - b + SeqMod) % SeqMod

VARIABLES
    metrics,     \* ReorderRingBufferMetrics
    data,        \* StaticVec<Option<P>>, indexed 0 .. Capacity-1
    write_pos,   \* write-head position
    read_pos,    \* read-head position
    read_seq,    \* sequence number the reader is waiting for
    write_seq,   \* the last-written sequence number
    reset_flag,  \* the sequence has reset and the buffer was cleared
    log          \* the calls made on the ring so far, with their results;
                 \* reset: the call was a put that reset the ring,
                 \* expired: the call was a put of a packet expired on entry,
                 \* iters: the iterations of the loop of skip_to_next

vars == <<metrics, data, write_pos, read_pos, read_seq, write_seq, reset_flag, log>>

\* the object the methods below take as `self`
Self ==
    [metrics |-> metrics, data |-> data, write_pos |-> write_pos,
     read_pos |-> read_pos, read_seq |-> read_seq, write_seq |-> write_seq,
     reset_flag |-> reset_flag]

Positions == 0 .. (Capacity - 1)

(***************************************************************************)
(* Private helpers of ReorderRingBuffer                                    *)
(***************************************************************************)

\* advance(pos, len): the position after pos
advance(pos) == IF pos + 1 >= Capacity THEN 0 ELSE pos + 1

next_read_seq(self) ==
    [self EXCEPT !.read_seq = wrapping_add(self.read_seq, 1)]

advance_write_head(self) ==
    [self EXCEPT !.write_pos = advance(self.write_pos)]

advance_read_head(self) ==
    [self EXCEPT !.read_pos = advance(self.read_pos)]

valid_to_read(self, pos) == self.write_pos /= pos

can_write_always(self) == TRUE

can_write(self) ==
    self.write_pos /= ((self.read_pos - 1 + Capacity) % Capacity)

is_seq_reset_inclusive(last, current) ==
    LET diff == IF current < last THEN last - current ELSE current - last
    IN  diff >= Capacity /\ diff <= (max_value - Capacity)

is_seq_reset(last, current) ==
    LET diff == IF current < last THEN last - current ELSE current - last
    IN  diff > Capacity /\ diff <= (max_value - Capacity)

\* push: the ring after the call and the packet handed back (None: stored)
push_counting_drop(self, packet) ==
    IF can_write(self)
    THEN [self |-> [advance_write_head(self) EXCEPT !.data[self.write_pos] = packet],
          ret |-> None]
    ELSE [self |-> [self EXCEPT !.metrics.dropped = @ + 1], ret |-> packet]

push(self, packet) ==
    IF can_write(self)
    THEN [self |-> [advance_write_head(self) EXCEPT !.data[self.write_pos] = packet],
          ret |-> None]
    ELSE [self |-> self, ret |-> packet]

is_expired(rseq, ps) ==
    /\ rseq /= ps
    /\ LET pivot == max_value \div 2
       IN  IF ps > rseq THEN ps - rseq > pivot ELSE rseq - ps < pivot

\* one iteration of the loop of try_pop on the cell under the cursor:
\* done tells whether the loop breaks with the packet in ret
try_pop_cell_head_only(self, cursor) ==
    IF self.data[cursor] /= None
    THEN [self |-> [self EXCEPT !.data[cursor] = None],
          done |-> TRUE, ret |-> self.data[cursor]]
    ELSE [self |-> IF cursor = self.read_pos THEN advance_read_head(self) ELSE self,
          done |-> FALSE, ret |-> None]

try_pop_cell_reordered_off_zero(self, cursor) ==
    IF self.data[cursor] /= None
    THEN LET p == self.data[cursor] IN
         IF p = self.read_seq
         THEN [self |-> [self EXCEPT
                           !.metrics.reordered =
                               IF cursor /= 0 THEN @ + 1 ELSE @,
                           !.data[cursor] = None],
               done |-> TRUE, ret |-> p]
         ELSE IF is_expired(self.read_seq, p)
         THEN LET moved == IF cursor = self.read_pos
                           THEN advance_read_head(self) ELSE self
              IN  [self |-> [moved EXCEPT !.metrics.dropped = @ + 1,
                                          !.data[cursor] = None],
                   done |-> FALSE, ret |-> None]
         ELSE [self |-> self, done |-> FALSE, ret |-> None]
    ELSE [self |-> IF cursor = self.read_pos THEN advance_read_head(self) ELSE self,
          done |-> FALSE, ret |-> None]

try_pop_cell(self, cursor) ==
    IF self.data[cursor] /= None
    THEN LET p == self.data[cursor] IN
         IF p = self.read_seq
         THEN [self |-> [self EXCEPT
                           !.metrics.reordered =
                               IF cursor /= self.read_pos THEN @ + 1 ELSE @,
                           !.data[cursor] = None],
               done |-> TRUE, ret |-> p]
         ELSE IF is_expired(self.read_seq, p)
         THEN LET moved == IF cursor = self.read_pos
                           THEN advance_read_head(self) ELSE self
              IN  [self |-> [moved EXCEPT !.metrics.dropped = @ + 1,
                                          !.data[cursor] = None],
                   done |-> FALSE, ret |-> None]
         ELSE [self |-> self, done |-> FALSE, ret |-> None]
    ELSE [self |-> IF cursor = self.read_pos THEN advance_read_head(self) ELSE self,
          done |-> FALSE, ret |-> None]

RECURSIVE try_pop_from(_, _)
try_pop_from_until_kept(self, cursor) ==
    IF ~valid_to_read(self, cursor)
    THEN [self |-> self, ret |-> None]
    ELSE LET r == try_pop_cell(self, cursor)
         IN  IF r.done
             THEN [self |-> r.self, ret |-> r.ret]
             ELSE IF r.self.data[cursor] /= None
             THEN [self |-> r.self, ret |-> None]
             ELSE try_pop_from(r.self, advance(cursor))

try_pop_from(self, cursor) ==
    IF ~valid_to_read(self, cursor)
    THEN [self |-> self, ret |-> None]
    ELSE LET r == try_pop_cell(self, cursor)
         IN  IF r.done
             THEN [self |-> r.self, ret |-> r.ret]
             ELSE try_pop_from(r.self, advance(cursor))

try_pop(self) == try_pop_from(self, self.read_pos)

(***************************************************************************)
(* Public methods                                                          *)
(***************************************************************************)

reset_to_given_seq(self, s) ==
    [self EXCEPT !.data = [i \in Positions |-> None],
                 !.read_pos = 0,
                 !.write_pos = 0,
                 !.read_seq = s,
                 !.write_seq = s,
                 !.reset_flag = TRUE]

reset_cells_kept(self, s) ==
    [self EXCEPT !.read_pos = 0,
                 !.write_pos = 0,
                 !.read_seq = wrapping_sub(s, 1),
                 !.write_seq = s,
                 !.reset_flag = TRUE]

reset(self, s) ==
    [self EXCEPT !.data = [i \in Positions |-> None],
                 !.read_pos = 0,
                 !.write_pos = 0,
                 !.read_seq = wrapping_sub(s, 1),
                 !.write_seq = s,
                 !.reset_flag = TRUE]

len_inclusive(self) ==
    IF self.write_pos >= self.read_pos
    THEN self.write_pos - self.read_pos + 1
    ELSE (Capacity - self.read_pos) + self.write_pos + 1

len(self) ==
    IF self.write_pos >= self.read_pos
    THEN self.write_pos - self.read_pos
    ELSE (Capacity - self.read_pos) + self.write_pos

is_empty(self) == len(self) = 0

\* the loop of skip_to_next; n counts the iterations made so far
RECURSIVE skip_to_next_loop(_, _)
skip_to_next_loop(self, n) ==
    LET r == try_pop(self)
    IN  IF r.ret = None
        THEN IF len(r.self) = 0
             THEN [self |-> r.self, ret |-> None, iters |-> n + 1]
             ELSE skip_to_next_loop(next_read_seq(r.self), n + 1)
        ELSE [self |-> next_read_seq(r.self), ret |-> r.ret, iters |-> n + 1]

skip_to_next_no_loop(self) ==
    LET r == try_pop(self)
    IN  IF r.ret = None
        THEN [self |-> r.self, ret |-> None, iters |-> 1]
        ELSE [self |-> next_read_seq(r.self), ret |-> r.ret, iters |-> 1]

skip_to_next(self) == skip_to_next_loop(self, 0)

\* ReorderQueueInput::put
put_expiry_first(self, packet) ==
    IF is_expired(self.read_seq, packet)
    THEN [self |-> [self EXCEPT !.metrics.rejected = @ + 1], ret |-> packet]
    ELSE LET s == packet
             r == IF is_seq_reset(self.write_seq, s) THEN reset(self, s) ELSE self
         IN  push([r EXCEPT !.write_seq = s], packet)

put_no_expiry(self, packet) ==
    LET s == packet
        r == IF is_seq_reset(self.write_seq, s) THEN reset(self, s) ELSE self
    IN  push([r EXCEPT !.write_seq = s], packet)

put_write_seq_when_stored(self, packet) ==
    LET s == packet
        r == IF is_seq_reset(self.write_seq, s) THEN reset(self, s) ELSE self
    IN  IF ~is_expired(r.read_seq, packet)
        THEN IF can_write(r)
             THEN push([r EXCEPT !.write_seq = s], packet)
             ELSE [self |-> r, ret |-> packet]
        ELSE [self |-> [r EXCEPT !.metrics.rejected = @ + 1], ret |-> packet]

put(self, packet) ==
    LET s == packet
        r == IF is_seq_reset(self.write_seq, s) THEN reset(self, s) ELSE self
    IN  IF ~is_expired(r.read_seq, packet)
        THEN push([r EXCEPT !.write_seq = s], packet)
        ELSE [self |-> [r EXCEPT !.metrics.rejected = @ + 1], ret |-> packet]

\* ReorderQueueOutput::next_event; ev is the variant of ReorderQueueEvent,
\* seq the sequence number of its packet (Packet) or its payload (Reset)
next_event_no_advance(self) ==
    IF self.reset_flag
    THEN LET r == next_read_seq([self EXCEPT !.reset_flag = FALSE])
         IN  [self |-> r, ev |-> "Reset", seq |-> r.read_seq]
    ELSE LET r == try_pop(self)
         IN  IF r.ret /= None
             THEN [self |-> [r.self EXCEPT !.metrics.delivered = @ + 1],
                   ev |-> "Packet", seq |-> r.ret]
             ELSE IF len(r.self) + 2 >= Capacity
             THEN [self |-> [next_read_seq(r.self) EXCEPT !.metrics.lost = @ + 1],
                   ev |-> "Missing", seq |-> None]
             ELSE [self |-> r.self, ev |-> "NeedMore", seq |-> None]

next_event_lost_twice(self) ==
    IF self.reset_flag
    THEN LET r == next_read_seq([self EXCEPT !.reset_flag = FALSE])
         IN  [self |-> r, ev |-> "Reset", seq |-> r.read_seq]
    ELSE LET r == try_pop(self)
         IN  IF r.ret /= None
             THEN [self |-> [next_read_seq(r.self) EXCEPT !.metrics.delivered = @ + 1],
                   ev |-> "Packet", seq |-> r.ret]
             ELSE IF len(r.self) + 2 >= Capacity
             THEN [self |-> [next_read_seq(r.self) EXCEPT !.metrics.lost = @ + 2],
                   ev |-> "Missing", seq |-> None]
             ELSE [self |-> r.self, ev |-> "NeedMore", seq |-> None]

next_event_within_one(self) ==
    IF self.reset_flag
    THEN LET r == next_read_seq([self EXCEPT !.reset_flag = FALSE])
         IN  [self |-> r, ev |-> "Reset", seq |-> r.read_seq]
    ELSE LET r == try_pop(self)
         IN  IF r.ret /= None
             THEN [self |-> [next_read_seq(r.self) EXCEPT !.metrics.delivered = @ + 1],
                   ev |-> "Packet", seq |-> r.ret]
             ELSE IF len(r.self) + 1 >= Capacity
             THEN [self |-> [next_read_seq(r.self) EXCEPT !.metrics.lost = @ + 1],
                   ev |-> "Missing", seq |-> None]
             ELSE [self |-> r.self, ev |-> "NeedMore", seq |-> None]

next_event_flag_kept(self) ==
    IF self.reset_flag
    THEN LET r == next_read_seq(self)
         IN  [self |-> r, ev |-> "Reset", seq |-> r.read_seq]
    ELSE LET r == try_pop(self)
         IN  IF r.ret /= None
             THEN [self |-> [next_read_seq(r.self) EXCEPT !.metrics.delivered = @ + 1],
                   ev |-> "Packet", seq |-> r.ret]
             ELSE IF len(r.self) + 2 >= Capacity
             THEN [self |-> [next_read_seq(r.self) EXCEPT !.metrics.lost = @ + 1],
                   ev |-> "Missing", seq |-> None]
             ELSE [self |-> r.self, ev |-> "NeedMore", seq |-> None]

next_event_missing_stays(self) ==
    IF self.reset_flag
    THEN LET r == next_read_seq([self EXCEPT !.reset_flag = FALSE])
         IN  [self |-> r, ev |-> "Reset", seq |-> r.read_seq]
    ELSE LET r == try_pop(self)
         IN  IF r.ret /= None
             THEN [self |-> [next_read_seq(r.self) EXCEPT !.metrics.delivered = @ + 1],
                   ev |-> "Packet", seq |-> r.ret]
             ELSE IF len(r.self) + 2 >= Capacity
             THEN [self |-> r.self, ev |-> "Missing", seq |-> None]
             ELSE [self |-> r.self, ev |-> "NeedMore", seq |-> None]

next_event(self) ==
    IF self.reset_flag
    THEN LET r == next_read_seq([self EXCEPT !.reset_flag = FALSE])
         IN  [self |-> r, ev |-> "Reset", seq |-> r.read_seq]
    ELSE LET r == try_pop(self)
         IN  IF r.ret /= None
             THEN [self |-> [next_read_seq(r.self) EXCEPT !.metrics.delivered = @ + 1],
                   ev |-> "Packet", seq |-> r.ret]
             ELSE IF len(r.self) + 2 >= Capacity
             THEN [self |-> [next_read_seq(r.self) EXCEPT !.metrics.lost = @ + 1],
                   ev |-> "Missing", seq |-> None]
             ELSE [self |-> r.self, ev |-> "NeedMore", seq |-> None]

(***************************************************************************)
(* State of the other parts of the model.  Each part has a specification   *)
(* of its own; a specification keeps the variables of the other parts at   *)
(* their parked values.                                                    *)
(***************************************************************************)

\* Part 2: one bounded channel of channel/mpmc.rs with its two threads
VARIABLES
    ch_head,     \* Channel::head
    ch_tail,     \* Channel::tail
    ch_stamp,    \* Slot::stamp of every slot of Channel::buffer
    ch_msg,      \* Slot::msg of every slot of Channel::buffer
    snd,         \* the thread that owns the Sender: its position in
                 \* try_send and the locals of start_send / write
    rcv,         \* the thread that owns the Receiver, likewise
    sent,        \* the messages try_send has accepted, in order
    received,    \* the messages try_receive has returned, in order
    ch_ret       \* what the last finished try_send / try_receive returned

chan_vars == <<ch_head, ch_tail, ch_stamp, ch_msg, snd, rcv, sent, received, ch_ret>>

ChanParked ==
    /\ ch_head = 0 /\ ch_tail = 0
    /\ ch_stamp = <<>> /\ ch_msg = <<>>
    /\ snd = <<>> /\ rcv = <<>>
    /\ sent = <<>> /\ received = <<>>
    /\ ch_ret = <<>>

\* Part 3: a message-stream acceptor or connector of
\* stream/message/non_blocking.rs, its socket and the user of its streams
VARIABLES
    role,             \* "acceptor" or "connector": which of the two was built
    streams,          \* NonBlockingStreamCollection::streams: peer -> backend
    accept_call_cnt,  \* NonBlockingStreamCollection::accept_call_cnt
    links,            \* every duplex_channel made so far, by stream number
    held,             \* the streams whose NonBlockingMessageStream the user holds
    io_rx,            \* what io.try_recv_from will yield, oldest first
    acc_ret,          \* what the last accept() / run() did and returned
    usr_ret,          \* what the last call on a user stream returned
    accepts,          \* the number of accept() calls made so far
    budget            \* how much of each bound has been used

strm_vars == <<role, streams, accept_call_cnt, links, held, io_rx,
               acc_ret, usr_ret, accepts, budget>>

StreamsParked ==
    /\ role = "none"
    /\ streams = <<>> /\ accept_call_cnt = 0
    /\ links = <<>> /\ held = {}
    /\ io_rx = <<>>
    /\ acc_ret = <<>> /\ usr_ret = <<>>
    /\ accepts = 0 /\ budget = <<>>

\* Part 4, the socket tables: the fields of Sockets, whether the build checks
\* arithmetic overflow, the handles the user has been given, whether a call
\* has panicked, what the last call returned, and the calls made so far
VARIABLES
    sockets, remote_sockets, num_local_sockets, num_remote_sockets,
    overflow_checks, handles, panicked, sock_ret, sock_budget

sock_vars == <<sockets, remote_sockets, num_local_sockets, num_remote_sockets,
               overflow_checks, handles, panicked, sock_ret, sock_budget>>

SocketsParked ==
    /\ sockets = <<>>
    /\ remote_sockets = <<>>
    /\ num_local_sockets = 0
    /\ num_remote_sockets = 0
    /\ overflow_checks = FALSE
    /\ handles = {}
    /\ panicked = FALSE
    /\ sock_ret = <<>>
    /\ sock_budget = <<>>

\* Part 5, the DTLS streams: acceptor or connector, the system clock, the
\* store of candidates, what became of every message stream handed to the
\* store, the shutdown flags of the engine of every stream given to the
\* caller, what the last call returned, and the calls made so far
VARIABLES
    dtls_role, clock, candidates, fate, ssl, dtls_ret, dtls_budget

dtls_vars == <<dtls_role, clock, candidates, fate, ssl, dtls_ret, dtls_budget>>

DtlsParked ==
    /\ dtls_role = "none"
    /\ clock = 0
    /\ candidates = <<>>
    /\ fate = <<>>
    /\ ssl = <<>>
    /\ dtls_ret = <<>>
    /\ dtls_budget = <<>>

\* Part 6, the sequence-number predicates of the ring called on their own:
\* the arguments of the call and what it returned
VARIABLES probe

seq_vars == <<probe>>

SeqParked == probe = <<>>

\* what the last next_event call of a reader that drains the ring, with no
\* put between its calls, returned; "idle" before the first such call
VARIABLES drain

drain_vars == <<drain>>

DrainParked == drain = "idle"

(***************************************************************************)
(* The state machine: a user calling the ring                              *)
(***************************************************************************)

\* ReorderRingBuffer::new(Capacity)
RingInit ==
    /\ metrics = [lost |-> 0, delivered |-> 0, dropped |-> 0,
                  rejected |-> 0, reordered |-> 0]
    /\ data = [i \in Positions |-> None]
    /\ write_pos = 0
    /\ read_pos = 0
    /\ read_seq = 0
    /\ write_seq = 0
    /\ reset_flag = FALSE
    /\ log = <<>>

Init == RingInit /\ ChanParked /\ StreamsParked /\ SocketsParked /\ DtlsParked /\ SeqParked /\ DrainParked

\* the other parts stay parked
RingOnly == UNCHANGED <<chan_vars, strm_vars, sock_vars, dtls_vars, seq_vars, drain_vars>>

Install(self) ==
    /\ metrics' = self.metrics
    /\ data' = self.data
    /\ write_pos' = self.write_pos
    /\ read_pos' = self.read_pos
    /\ read_seq' = self.read_seq
    /\ write_seq' = self.write_seq
    /\ reset_flag' = self.reset_flag
    /\ RingOnly

\* the sequence numbers offered to put: around the last-written one, up to
\* one past the distance at which is_seq_reset triggers, in both directions
PutSeqs == { wrapping_add(write_seq, SeqMod + d) : d \in -(Capacity + 1) .. (Capacity + 1) }

Put(s) ==
    /\ Len(log) < MaxOps
    /\ LET r == put(Self, s)
       IN  /\ Install(r.self)
           /\ log' = Append(log, [op |-> "put", seq |-> s,
                                  ret |-> IF r.ret = None THEN "None" ELSE "Some",
                                  reset |-> is_seq_reset(write_seq, s),
                                  expired |-> is_expired(read_seq, s),
                                  iters |-> 0])

NextEvent ==
    /\ Len(log) < MaxOps
    /\ LET r == next_event(Self)
       IN  /\ Install(r.self)
           /\ log' = Append(log, [op |-> "next_event", seq |-> r.seq, ret |-> r.ev,
                                  reset |-> FALSE, expired |-> FALSE,
                                  iters |-> 0])

SkipToNext ==
    /\ Len(log) < MaxOps
    /\ LET r == skip_to_next(Self)
       IN  /\ Install(r.self)
           /\ log' = Append(log, [op |-> "skip_to_next", seq |-> r.ret,
                                  ret |-> IF r.ret = None THEN "None" ELSE "Some",
                                  reset |-> FALSE, expired |-> FALSE,
                                  iters |-> r.iters])

Next ==
    \/ \E s \in PutSeqs : Put(s)
    \/ NextEvent
    \/ SkipToNext

Spec == Init /\ [][Next]_vars

TypeOK ==
    /\ data \in [Positions -> SeqNums \cup {None}]
    /\ write_pos \in Positions
    /\ read_pos \in Positions
    /\ read_seq \in SeqNums
    /\ write_seq \in SeqNums
    /\ reset_flag \in BOOLEAN
    /\ Len(log) <= MaxOps

(***************************************************************************)
(* Vocabulary of the properties                                            *)
(***************************************************************************)

\* forward wrapping distance from a to b
forward_distance(a, b) == wrapping_sub(b, a)

\* a precedes b in pivot-window order
Precedes(a, b) ==
    forward_distance(a, b) >= 1 /\ forward_distance(a, b) <= max_value \div 2

Calls == DOMAIN log

\* call i handed a packet to the reader
IsDelivery(i) ==
    \/ log[i].op = "next_event" /\ log[i].ret = "Packet"
    \/ log[i].op = "skip_to_next" /\ log[i].ret = "Some"

IsResetPut(i) == log[i].op = "put" /\ log[i].reset

\* no put reset the ring strictly between calls i and j
NoResetBetween(i, j) == \A k \in Calls : (i < k /\ k < j) => ~IsResetPut(k)

\* the step just taken appended a call to the log
Called(op) == Len(log') = Len(log) + 1 /\ log'[Len(log')].op = op

LastCall == log'[Len(log')]

Occupied == Cardinality({i \in Positions : data[i] /= None})

(***************************************************************************)
(* C1  In-order delivery                                                   *)
(***************************************************************************)

\* C1 as stated: whenever two packets are delivered and the sequence number
\* of one precedes the other's in pivot-window order, it was delivered first.
C1_InOrderAnySequence ==
    \A i, j \in Calls :
        (i < j /\ IsDelivery(i) /\ IsDelivery(j))
            => ~Precedes(log[j].seq, log[i].seq)

\* C1 amended: two packets delivered with no reset of the ring between the
\* two deliveries come out in pivot-window order.  (Within MaxOps calls
\* read_seq stays inside one pivot window between resets.)
C1_InOrderBetweenResets ==
    \A i, j \in Calls :
        (i < j /\ IsDelivery(i) /\ IsDelivery(j) /\ NoResetBetween(i, j))
            => ~Precedes(log[j].seq, log[i].seq)

\* two packets admitted out of order were both delivered, in order
C1_Witness ==
    \E i, j \in Calls :
        /\ i < j /\ IsDelivery(i) /\ IsDelivery(j) /\ NoResetBetween(i, j)
        /\ Precedes(log[i].seq, log[j].seq)
        /\ \E a, b \in Calls :
              /\ a < b /\ b < i
              /\ log[a].op = "put" /\ log[a].ret = "None" /\ log[a].seq = log[j].seq
              /\ log[b].op = "put" /\ log[b].ret = "None" /\ log[b].seq = log[i].seq
              /\ NoResetBetween(a, j) /\ ~IsResetPut(a)

(***************************************************************************)
(* C2  Reorder idempotence                                                 *)
(***************************************************************************)

\* C2 as stated: a sequence number is delivered at most once, whatever the
\* sequence of calls.
C2_DeliveredAtMostOnce ==
    \A i, j \in Calls :
        (i < j /\ IsDelivery(i) /\ IsDelivery(j)) => log[i].seq /= log[j].seq

\* C2 amended: between two resets of the ring a sequence number is delivered
\* at most once (MaxOps calls never wrap read_seq around the sequence space).
C2_DeliveredAtMostOnceBetweenResets ==
    \A i, j \in Calls :
        (i < j /\ IsDelivery(i) /\ IsDelivery(j) /\ NoResetBetween(i, j))
            => log[i].seq /= log[j].seq

\* a sequence number was admitted twice, delivered, and its second copy was
\* taken out of the ring by the scan (dropped) or refused by put (rejected)
C2_Witness ==
    \E a, b, i \in Calls :
        /\ a < b /\ log[a].op = "put" /\ log[b].op = "put"
        /\ log[a].seq = log[b].seq /\ log[a].ret = "None"
        /\ IsDelivery(i) /\ log[i].seq = log[a].seq
        /\ NoResetBetween(a, Len(log) + 1) /\ ~IsResetPut(a)
        /\ \/ log[b].ret = "None" /\ b < i /\ metrics.dropped >= 1
           \/ log[b].ret = "Some" /\ i < b /\ metrics.rejected >= 1

(***************************************************************************)
(* C3  Reset fidelity                                                      *)
(***************************************************************************)

\* call j is the first next_event after call i
FirstEventAfter(i, j) ==
    /\ i < j /\ log[j].op = "next_event"
    /\ \A k \in Calls : (i < k /\ k < j) => log[k].op /= "next_event"

\* call k is the first delivery of a packet after call j
FirstDeliveryAfter(j, k) ==
    /\ j < k /\ IsDelivery(k)
    /\ \A m \in Calls : (j < m /\ m < k) => ~IsDelivery(m)

\* C3 as stated: after a put that resets the ring to s the next event is
\* Reset(s) and the next packet delivered after it carries s.
C3_ResetThenPacket ==
    \A i, j \in Calls :
        (IsResetPut(i) /\ FirstEventAfter(i, j))
            => /\ log[j].ret = "Reset" /\ log[j].seq = log[i].seq
               /\ \A k \in Calls :
                     FirstDeliveryAfter(j, k) => log[k].seq = log[i].seq

\* C3 amended: after a put that resets the ring to s, if no later put resets
\* the ring again and skip_to_next is not called before the next next_event,
\* that event is Reset(s), and (still with no further reset) the next packet
\* delivered after it carries s.
C3_ResetThenPacketUndisturbed ==
    \A i, j \in Calls :
        (/\ IsResetPut(i) /\ FirstEventAfter(i, j) /\ NoResetBetween(i, j)
         /\ \A m \in Calls : (i < m /\ m < j) => log[m].op /= "skip_to_next")
            => /\ log[j].ret = "Reset" /\ log[j].seq = log[i].seq
               /\ \A k \in Calls :
                     (FirstDeliveryAfter(j, k) /\ NoResetBetween(i, k))
                         => log[k].seq = log[i].seq

\* a resetting put, then Reset(s), then the packet s
C3_Witness ==
    \E i, j, k \in Calls :
        /\ IsResetPut(i) /\ FirstEventAfter(i, j) /\ NoResetBetween(i, k)
        /\ log[j].ret = "Reset" /\ log[j].seq = log[i].seq
        /\ FirstDeliveryAfter(j, k) /\ log[k].seq = log[i].seq

(***************************************************************************)
(* C4  When put hands the packet back                                      *)
(***************************************************************************)

\* the ring as put sees it after its reset check on packet s
AfterResetCheck(s) == IF is_seq_reset(write_seq, s) THEN reset(Self, s) ELSE Self

\* the step stored s in the cell under the write head and advanced the head
StoredAtWriteHead(s) ==
    LET r == AfterResetCheck(s)
    IN  /\ data' = [r.data EXCEPT ![r.write_pos] = s]
        /\ write_pos' = advance(r.write_pos)
        /\ read_pos' = r.read_pos

\* C4 as stated: put returns the packet if and only if the backlog is full
\* at the time of the call; otherwise it returns nothing and stores it.
C4_ReturnedIffFull ==
    [][Called("put") =>
        /\ (LastCall.ret = "Some") <=> (len(Self) = Capacity - 1)
        /\ (LastCall.ret = "None") => StoredAtWriteHead(LastCall.seq)]_vars

\* C4 amended: put returns the packet if and only if, after the reset check
\* has been applied, the packet is expired with respect to read_seq or the
\* backlog is full; otherwise it returns nothing and stores the packet.
C4_ReturnedIffExpiredOrFull ==
    [][Called("put") =>
        LET r == AfterResetCheck(LastCall.seq)
        IN  /\ (LastCall.ret = "Some") <=>
                   (is_expired(r.read_seq, LastCall.seq) \/ len(r) = Capacity - 1)
            /\ (LastCall.ret = "None") => StoredAtWriteHead(LastCall.seq)]_vars

\* put handed back an expired packet although the backlog was not full
C4_Witness ==
    /\ log /= <<>>
    /\ log[Len(log)].op = "put" /\ log[Len(log)].ret = "Some"
    /\ ~log[Len(log)].reset
    /\ metrics.rejected >= 1
    /\ len(Self) < Capacity - 1

(***************************************************************************)
(* C5  Order of the expiry check and the reset check in put                *)
(***************************************************************************)

\* the step counted one rejected packet and left the ring alone
RejectedOnly ==
    /\ LastCall.ret = "Some"
    /\ metrics' = [metrics EXCEPT !.rejected = @ + 1]
    /\ data' = data /\ read_pos' = read_pos /\ write_pos' = write_pos
    /\ read_seq' = read_seq /\ write_seq' = write_seq
    /\ reset_flag' = reset_flag

\* the step reset the ring to s and stored s as its only packet
ResetAndStored(s) ==
    /\ LastCall.ret = "None"
    /\ metrics' = metrics
    /\ data' = [i \in Positions |-> IF i = 0 THEN s ELSE None]
    /\ read_pos' = 0 /\ write_pos' = 1
    /\ read_seq' = wrapping_sub(s, 1) /\ write_seq' = s
    /\ reset_flag' = TRUE

\* C5 as stated: a packet that is expired when put is called is returned and
\* counted as rejected and the ring is not reset, also when is_seq_reset
\* holds for it.
C5_ExpiryCheckedFirst ==
    [][(Called("put") /\ is_expired(read_seq, LastCall.seq)) => RejectedOnly]_vars

\* C5 amended: put applies the reset check first.  A packet for which
\* is_seq_reset holds resets the ring and is stored, expired or not; a
\* packet that is expired and for which is_seq_reset does not hold is
\* returned, counted as rejected, and the ring is left alone.
C5_ResetCheckedFirst ==
    [][Called("put") =>
        /\ is_seq_reset(write_seq, LastCall.seq) => ResetAndStored(LastCall.seq)
        /\ (is_expired(read_seq, LastCall.seq)
              /\ ~is_seq_reset(write_seq, LastCall.seq)) => RejectedOnly]_vars

\* a packet that was expired on entry reset the ring and was stored
C5_Witness ==
    /\ log /= <<>>
    /\ log[Len(log)].op = "put" /\ log[Len(log)].ret = "None"
    /\ log[Len(log)].reset /\ log[Len(log)].expired
    /\ reset_flag /\ data[0] = log[Len(log)].seq

(***************************************************************************)
(* C6  Late-packet rejection                                               *)
(***************************************************************************)

\* s lies behind read_seq by a wrapping distance of 1 .. Capacity
LateBy1ToCapacity(s) ==
    forward_distance(s, read_seq) >= 1 /\ forward_distance(s, read_seq) <= Capacity

\* s is at a wrapping distance of at most Capacity from last, either way
WithinCapacityOf(last, s) ==
    forward_distance(last, s) <= Capacity \/ forward_distance(s, last) <= Capacity

\* C6 as stated: in any reachable state a put that is late by 1 .. Capacity
\* with respect to read_seq is returned and counted as rejected, the ring is
\* not reset, and the next event is not Reset.
C6_LateRejectedAnyState ==
    [][(Called("put") /\ LateBy1ToCapacity(LastCall.seq))
          => (RejectedOnly /\ ~reset_flag')]_vars

\* C6 amended: a put that is late by 1 .. Capacity with respect to read_seq
\* and no further than Capacity from write_seq is returned and counted as
\* rejected exactly once, and the ring (reset flag included) is left as it
\* was: the next event is Reset only if a reset was pending already.
C6_LateRejectedNearWriteSeq ==
    [][(Called("put") /\ LateBy1ToCapacity(LastCall.seq)
           /\ WithinCapacityOf(write_seq, LastCall.seq))
          => RejectedOnly]_vars

\* a late packet was rejected by a ring that had already moved on, with the
\* last-written sequence number ahead of read_seq
C6_Witness ==
    /\ log /= <<>>
    /\ log[Len(log)].op = "put" /\ log[Len(log)].ret = "Some"
    /\ LateBy1ToCapacity(log[Len(log)].seq)
    /\ WithinCapacityOf(write_seq, log[Len(log)].seq)
    /\ metrics.rejected >= 1 /\ metrics.delivered >= 1
    /\ Precedes(read_seq, write_seq)
    /\ ~reset_flag

(***************************************************************************)
(* C7  Backpressure non-destruction                                        *)
(***************************************************************************)

\* C7: a put that hands the packet back because the backlog is full (the
\* packet was not expired, the ring had len() = Capacity - 1) leaves the
\* five counters as they were.
C7_FullLeavesCounters ==
    [][(/\ Called("put") /\ LastCall.ret = "Some"
        /\ len(Self) = Capacity - 1
        /\ ~is_expired(read_seq, LastCall.seq))
          => metrics' = metrics]_vars

\* put handed back a packet that was not expired: the backlog was full
C7_Witness ==
    /\ log /= <<>>
    /\ log[Len(log)].op = "put" /\ log[Len(log)].ret = "Some"
    /\ ~log[Len(log)].expired /\ ~log[Len(log)].reset
    /\ len(Self) = Capacity - 1
    /\ metrics.rejected = 0 /\ metrics.dropped = 0

(***************************************************************************)
(* C8  Capacity bound                                                      *)
(***************************************************************************)

\* the occupied slots are at most len(), and len() is at most Capacity - 1
CapacityBound == Occupied <= len(Self) /\ len(Self) <= Capacity - 1

\* C8: in every reachable state the number of occupied slots is at most
\* len() and len() is at most Capacity - 1; a put of a packet that is neither
\* expired nor resetting into a ring with len() = Capacity - 1 hands the
\* packet back and leaves len() unchanged.
C8_CapacityBound ==
    /\ []CapacityBound
    /\ [][(/\ Called("put") /\ len(Self) = Capacity - 1
           /\ ~is_expired(read_seq, LastCall.seq)
           /\ ~is_seq_reset(write_seq, LastCall.seq))
             => /\ LastCall.ret = "Some"
                /\ write_pos' = write_pos /\ read_pos' = read_pos
                /\ data' = data]_vars

\* the ring is full, every cell of the window holds a packet, and the last
\* put was handed back
C8_Witness ==
    /\ log /= <<>>
    /\ log[Len(log)].op = "put" /\ log[Len(log)].ret = "Some"
    /\ ~log[Len(log)].expired /\ ~log[Len(log)].reset
    /\ len(Self) = Capacity - 1 /\ Occupied = Capacity - 1

(***************************************************************************)
(* C9  Missing accountability                                              *)
(***************************************************************************)

\* the step was a next_event call that returned Missing
ReturnedMissing == Called("next_event") /\ LastCall.ret = "Missing"

\* C9: a next_event call that returns Missing increments lost by exactly one
\* and advances read_seq by exactly one (wrapping); no other call changes
\* lost.
C9_MissingAccountability ==
    [][/\ ReturnedMissing =>
            /\ metrics'.lost = metrics.lost + 1
            /\ read_seq' = wrapping_add(read_seq, 1)
       /\ (metrics'.lost /= metrics.lost) => ReturnedMissing]_vars

\* next_event returned Missing and lost was counted
C9_Witness ==
    /\ log /= <<>>
    /\ log[Len(log)].op = "next_event" /\ log[Len(log)].ret = "Missing"
    /\ metrics.lost = Cardinality({i \in Calls : log[i].ret = "Missing"})
    /\ metrics.lost >= 1

(***************************************************************************)
(* C10  Complete in-order drain                                            *)
(***************************************************************************)

\* the first n calls on the new ring were puts of a permutation of 0 .. n-1
PermutationAdmitted(n) ==
    /\ n <= Len(log)
    /\ \A i \in 1 .. n : log[i].op = "put"
    /\ {log[i].seq : i \in 1 .. n} = 0 .. (n - 1)

\* the k calls after the first n were all next_event
ThenEvents(n, k) ==
    /\ n + k <= Len(log)
    /\ \A i \in (n + 1) .. (n + k) : log[i].op = "next_event"

\* C10: on a new ring, after a permutation of 0 .. n-1 (n <= Capacity - 1)
\* has been admitted, every put stored its packet, the k-th next_event
\* (k <= n) delivers the packet k-1, the one after the n-th returns NeedMore,
\* and len() is then 0.
C10_CompleteDrain ==
    \A n \in 0 .. (Capacity - 1) :
        PermutationAdmitted(n) =>
            /\ \A i \in 1 .. n : log[i].ret = "None"
            /\ \A k \in 1 .. (n + 1) :
                  ThenEvents(n, k) =>
                      IF k <= n
                      THEN log[n + k].ret = "Packet" /\ log[n + k].seq = k - 1
                      ELSE /\ log[n + k].ret = "NeedMore"
                           /\ (Len(log) = n + k) => len(Self) = 0

\* two or more packets were admitted in descending order and the ring has
\* been drained to NeedMore
C10_Witness ==
    \E n \in 2 .. (Capacity - 1) :
        /\ PermutationAdmitted(n) /\ ThenEvents(n, n + 1)
        /\ Len(log) = 2 * n + 1
        /\ \A i \in 1 .. n : log[i].seq = n - i
        /\ log[Len(log)].ret = "NeedMore"
        /\ metrics.delivered = n /\ metrics.reordered >= 1
        /\ len(Self) = 0

(***************************************************************************)
(* C11  skip_to_next                                                       *)
(***************************************************************************)

\* the sequence numbers of the packets held by the ring
Held == {data[i] : i \in Positions} \ {None}

\* C11: skip_to_next terminates; when it returns a packet s, s was held, the
\* loop advanced read_seq one step per iteration up to s and left read_seq
\* at s + 1, and every held packet nearer to read_seq than s was expired;
\* when it returns nothing the ring has drained: len() = 0 and no cell holds
\* a packet.
C11_SkipToNext ==
    [][Called("skip_to_next") =>
        /\ LastCall.iters >= 1 /\ LastCall.iters <= SeqMod + 1
        /\ (LastCall.ret = "Some") =>
              /\ LastCall.seq \in Held
              /\ LastCall.iters = forward_distance(read_seq, LastCall.seq) + 1
              /\ read_seq' = wrapping_add(LastCall.seq, 1)
              /\ \A q \in Held :
                    forward_distance(read_seq, q)
                        < forward_distance(read_seq, LastCall.seq)
                    => is_expired(read_seq, q)
        /\ (LastCall.ret = "None") =>
              /\ len(Self)' = 0
              /\ \A i \in Positions : data'[i] = None]_vars

\* skip_to_next stepped read_seq over a gap and returned the packet behind
\* it, with another packet still held
C11_Witness ==
    /\ log /= <<>>
    /\ log[Len(log)].op = "skip_to_next" /\ log[Len(log)].ret = "Some"
    /\ log[Len(log)].iters >= 3
    /\ Held /= {}


(***************************************************************************)
(* Part 2: the bounded channel (channel/mpmc.rs), one thread holding the   *)
(* Sender and one holding the Receiver.  Every action is one access to the *)
(* shared memory of the channel (an atomic load, compare-exchange, store   *)
(* or fetch_or, or the access to the message cell of a slot) together with *)
(* the thread-local computation that follows it up to the next access.     *)
(* usize arithmetic is not wrapped: a lap counter needs 2^64 / one_lap     *)
(* laps to overflow.                                                       *)
(***************************************************************************)

ChanCap == 2          \* cap given to channel(cap)
MaxRounds == 3        \* rounds of a retry loop counted per call
MaxMsgs == 5          \* the sender offers the messages 1 .. MaxMsgs

Uninit == 0           \* MaybeUninit::uninit(), and a cell whose message was moved out
Msgs == 1 .. MaxMsgs
Slots == 0 .. (ChanCap - 1)

RECURSIVE pow2_from(_, _)
pow2_from(p, n) == IF p >= n THEN p ELSE pow2_from(2 * p, n)

\* usize::next_power_of_two
next_power_of_two(n) == pow2_from(1, n)

mark_bit == next_power_of_two(ChanCap + 1)
one_lap == mark_bit * 2

\* x & mark_bit != 0
marked(x) == (x \div mark_bit) % 2 = 1

\* x & !mark_bit
without_mark(x) == IF marked(x) THEN x - mark_bit ELSE x

\* x & (mark_bit - 1)
index_of(x) == x % mark_bit

\* x & !(one_lap - 1)
lap_of(x) == x - (x % one_lap)

\* new_tail / new head: the next slot of the same lap, or slot 0 one lap forward
next_stamp(x) ==
    IF index_of(x) + 1 < ChanCap THEN x + 1 ELSE lap_of(x) + one_lap

\* a sender that takes a slot only once its stamp is a lap ahead of the tail
send_slot_ready_lap_ahead(tail, stamp) == stamp = tail + one_lap

\* start_send: "if tail == stamp", the slot at the tail is free for this lap
send_slot_ready(tail, stamp) == tail = stamp

\* start_send: "stamp.wrapping_add(one_lap) == tail + 1"
send_slot_taken(tail, stamp) == stamp + one_lap = tail + 1

is_full_never(head, tail) == FALSE

\* start_send: "head.wrapping_add(one_lap) == tail", the channel is full
is_full(head, tail) == head + one_lap = tail

recv_slot_ready_unpublished(head, stamp) == head + 1 = stamp \/ stamp = head

\* start_recv: "head + 1 == stamp", the slot at the head holds a message
recv_slot_ready(head, stamp) == head + 1 = stamp

\* start_recv: "stamp == head"
recv_slot_vacant(head, stamp) == stamp = head

\* start_recv: "(tail & !mark_bit) == head", the channel is empty
is_empty_chan(head, tail) == without_mark(tail) = head

disconnect_nothing(tail) == tail

\* Channel::disconnect: tail.fetch_or(mark_bit)
disconnect(tail) == IF marked(tail) THEN tail ELSE tail + mark_bit

\* Channel::is_disconnected
is_disconnected == marked(ch_tail)

NullToken == [slot |-> -1, stamp |-> 0]
\* rounds, ready, held and weak are history of the call in progress: the
\* rounds of the loop of start_send / start_recv it has begun (counted up to
\* MaxRounds), whether the queue was not full (not empty, for a receiver) when
\* the call began, whether the other thread was then inside the slot the call
\* needs, and whether a compare_exchange_weak of the call failed although the
\* value was the expected one
ThreadIdle == [pc |-> "idle", msg |-> Uninit, pos |-> 0, stamp |-> 0,
               token |-> NullToken, late |-> FALSE,
               rounds |-> 0, ready |-> FALSE, held |-> FALSE, weak |-> FALSE]
ThreadGone == [ThreadIdle EXCEPT !.pc = "dropped"]
NoReturn == [op |-> "none", res |-> "none", msg |-> Uninit, late |-> FALSE]

\* channel(ChanCap): Channel::with_capacity and the two handles
ChanInit ==
    /\ ch_head = 0
    /\ ch_tail = 0
    /\ ch_stamp = [i \in Slots |-> i]
    /\ ch_msg = [i \in Slots |-> Uninit]
    /\ snd = ThreadIdle
    /\ rcv = ThreadIdle
    /\ sent = <<>>
    /\ received = <<>>
    /\ ch_ret = NoReturn

\* the receiver has moved the head past slot i and not yet released it
\* (between the compare_exchange of start_recv and the stamp store of read)
receiver_holds(i) == rcv.pc \in {"read_msg", "read_stamp"} /\ rcv.token.slot = i

\* the sender has moved the tail past slot i and not yet published it
\* (between the compare_exchange of start_send and the stamp store of write)
sender_holds(i) == snd.pc \in {"write_msg", "write_stamp"} /\ snd.token.slot = i

\* one more round of the loop, counted up to MaxRounds
next_round(n) == IF n < MaxRounds THEN n + 1 ELSE MaxRounds

\* the other parts stay parked
ChanOnly == UNCHANGED <<vars, strm_vars, sock_vars, dtls_vars, seq_vars, drain_vars>>

\* try_send returns res for the message the thread was sending
send_returns(res) ==
    /\ ch_ret' = [op |-> "try_send", res |-> res, msg |-> snd.msg, late |-> snd.late]
    /\ snd' = ThreadIdle
    /\ sent' = IF res = "Ok" THEN Append(sent, snd.msg) ELSE sent

\* the top of the loop of start_send with the tail value t: a marked tail
\* gives the null token, which write turns into Err(msg), and try_send into
\* Disconnected(msg)
send_loop_top(t) ==
    IF marked(t)
    THEN send_returns("Disconnected")
    ELSE /\ snd' = [snd EXCEPT !.pc = "load_stamp", !.pos = t,
                                !.weak = @ \/ (snd.pc = "cas" /\ t = snd.pos)]
         /\ UNCHANGED <<sent, ch_ret>>

\* try_send(msg), start_send: "let mut tail = self.tail.load(..)"
try_send(v) ==
    /\ snd.pc = "idle"
    /\ Len(sent) < MaxMsgs
    /\ v = Len(sent) + 1
    /\ LET me == [snd EXCEPT !.msg = v, !.late = is_disconnected,
                              !.ready = ~is_full(ch_head, without_mark(ch_tail)),
                              !.held = receiver_holds(index_of(ch_tail))]
       IN  IF marked(ch_tail)
           THEN /\ ch_ret' = [op |-> "try_send", res |-> "Disconnected",
                              msg |-> v, late |-> me.late]
                /\ snd' = ThreadIdle
                /\ UNCHANGED sent
           ELSE /\ snd' = [me EXCEPT !.pc = "load_stamp", !.pos = ch_tail]
                /\ UNCHANGED <<sent, ch_ret>>
    /\ UNCHANGED <<ch_head, ch_tail, ch_stamp, ch_msg, rcv, received>>
    /\ ChanOnly

\* start_send: "let stamp = slot.stamp.load(..)" and the three-way branch on it
start_send_load_stamp ==
    /\ snd.pc = "load_stamp"
    /\ LET stamp == ch_stamp[index_of(snd.pos)]
       IN  snd' = [snd EXCEPT !.stamp = stamp,
                              !.rounds = next_round(@),
                              !.pc = IF send_slot_ready(snd.pos, stamp) THEN "cas"
                                     ELSE IF send_slot_taken(snd.pos, stamp) THEN "load_head"
                                     ELSE "load_tail"]
    /\ UNCHANGED <<ch_head, ch_tail, ch_stamp, ch_msg, rcv, sent, received, ch_ret>>
    /\ ChanOnly

\* start_send: tail.compare_exchange_weak(tail, new_tail): it succeeds, or it
\* fails and hands back the current tail (a weak exchange may also fail when
\* the tail is the expected one)
start_send_cas ==
    /\ snd.pc = "cas"
    /\ \/ /\ ch_tail = snd.pos
          /\ ch_tail' = next_stamp(snd.pos)
          /\ snd' = [snd EXCEPT !.pc = "write_msg",
                                !.token = [slot |-> index_of(snd.pos), stamp |-> snd.pos + 1]]
          /\ UNCHANGED <<sent, ch_ret>>
       \/ /\ send_loop_top(ch_tail)
          /\ UNCHANGED ch_tail
    /\ UNCHANGED <<ch_head, ch_stamp, ch_msg, rcv, received>>
    /\ ChanOnly

\* start_send: "let head = self.head.load(..)", full when the head is one lap behind
start_send_load_head ==
    /\ snd.pc = "load_head"
    /\ IF is_full(ch_head, snd.pos)
       THEN send_returns("Full")
       ELSE /\ snd' = [snd EXCEPT !.pc = "load_tail"]
            /\ UNCHANGED <<sent, ch_ret>>
    /\ UNCHANGED <<ch_head, ch_tail, ch_stamp, ch_msg, rcv, received>>
    /\ ChanOnly

\* start_send: "tail = self.tail.load(..)" before the next round of the loop
start_send_load_tail ==
    /\ snd.pc = "load_tail"
    /\ send_loop_top(ch_tail)
    /\ UNCHANGED <<ch_head, ch_tail, ch_stamp, ch_msg, rcv, received>>
    /\ ChanOnly

\* write: "slot.msg.get().write(MaybeUninit::new(msg))"
write_msg ==
    /\ snd.pc = "write_msg"
    /\ ch_msg' = [ch_msg EXCEPT ![snd.token.slot] = snd.msg]
    /\ snd' = [snd EXCEPT !.pc = "write_stamp"]
    /\ UNCHANGED <<ch_head, ch_tail, ch_stamp, rcv, sent, received, ch_ret>>
    /\ ChanOnly

\* write: "slot.stamp.store(token.stamp, Release)", then try_send returns Ok
write_stamp ==
    /\ snd.pc = "write_stamp"
    /\ ch_stamp' = [ch_stamp EXCEPT ![snd.token.slot] = snd.token.stamp]
    /\ send_returns("Ok")
    /\ UNCHANGED <<ch_head, ch_tail, ch_msg, rcv, received>>
    /\ ChanOnly

\* try_recv returns res with the message m
recv_returns(res, m) ==
    /\ ch_ret' = [op |-> "try_recv", res |-> res, msg |-> m, late |-> rcv.late]
    /\ rcv' = ThreadIdle
    /\ received' = IF res = "Ok" THEN Append(received, m) ELSE received

\* try_recv(), start_recv: "let mut head = self.head.load(..)"
try_recv ==
    /\ rcv.pc = "idle"
    /\ rcv' = [rcv EXCEPT !.pc = "load_stamp", !.pos = ch_head, !.late = is_disconnected,
                           !.ready = ~is_empty_chan(ch_head, ch_tail),
                           !.held = sender_holds(index_of(ch_head))]
    /\ UNCHANGED <<ch_head, ch_tail, ch_stamp, ch_msg, snd, sent, received, ch_ret>>
    /\ ChanOnly

\* start_recv: "let stamp = slot.stamp.load(..)" and the three-way branch on it
start_recv_load_stamp ==
    /\ rcv.pc = "load_stamp"
    /\ LET stamp == ch_stamp[index_of(rcv.pos)]
       IN  rcv' = [rcv EXCEPT !.stamp = stamp,
                              !.rounds = next_round(@),
                              !.pc = IF recv_slot_ready(rcv.pos, stamp) THEN "cas"
                                     ELSE IF recv_slot_vacant(rcv.pos, stamp) THEN "load_tail"
                                     ELSE "load_head"]
    /\ UNCHANGED <<ch_head, ch_tail, ch_stamp, ch_msg, snd, sent, received, ch_ret>>
    /\ ChanOnly

\* start_recv: head.compare_exchange_weak(head, new)
start_recv_cas ==
    /\ rcv.pc = "cas"
    /\ \/ /\ ch_head = rcv.pos
          /\ ch_head' = next_stamp(rcv.pos)
          /\ rcv' = [rcv EXCEPT !.pc = "read_msg",
                                !.token = [slot |-> index_of(rcv.pos),
                                           stamp |-> rcv.pos + one_lap]]
       \/ /\ rcv' = [rcv EXCEPT !.pc = "load_stamp", !.pos = ch_head,
                                  !.weak = @ \/ ch_head = rcv.pos]
          /\ UNCHANGED ch_head
    /\ UNCHANGED <<ch_tail, ch_stamp, ch_msg, snd, sent, received, ch_ret>>
    /\ ChanOnly

\* start_recv: "let tail = self.tail.load(..)": empty, disconnected, or retry
start_recv_load_tail ==
    /\ rcv.pc = "load_tail"
    /\ IF is_empty_chan(rcv.pos, ch_tail)
       THEN recv_returns(IF marked(ch_tail) THEN "Disconnected" ELSE "Empty", Uninit)
       ELSE /\ rcv' = [rcv EXCEPT !.pc = "load_head"]
            /\ UNCHANGED <<received, ch_ret>>
    /\ UNCHANGED <<ch_head, ch_tail, ch_stamp, ch_msg, snd, sent>>
    /\ ChanOnly

\* start_recv: "head = self.head.load(..)" before the next round of the loop
start_recv_load_head ==
    /\ rcv.pc = "load_head"
    /\ rcv' = [rcv EXCEPT !.pc = "load_stamp", !.pos = ch_head]
    /\ UNCHANGED <<ch_head, ch_tail, ch_stamp, ch_msg, snd, sent, received, ch_ret>>
    /\ ChanOnly

\* read: "slot.msg.get().read().assume_init()" moves the message out of the cell
read_msg ==
    /\ rcv.pc = "read_msg"
    /\ rcv' = [rcv EXCEPT !.pc = "read_stamp", !.msg = ch_msg[rcv.token.slot]]
    /\ ch_msg' = [ch_msg EXCEPT ![rcv.token.slot] = Uninit]
    /\ UNCHANGED <<ch_head, ch_tail, ch_stamp, snd, sent, received, ch_ret>>
    /\ ChanOnly

\* read: "slot.stamp.store(token.stamp, Release)", then try_recv returns Ok(msg)
read_stamp ==
    /\ rcv.pc = "read_stamp"
    /\ ch_stamp' = [ch_stamp EXCEPT ![rcv.token.slot] = rcv.token.stamp]
    /\ recv_returns("Ok", rcv.msg)
    /\ UNCHANGED <<ch_head, ch_tail, ch_msg, snd, sent>>
    /\ ChanOnly

\* Drop for SendEnd: the last Sender goes away between two calls
drop_SendEnd ==
    /\ snd.pc = "idle"
    /\ ch_tail' = disconnect(ch_tail)
    /\ snd' = ThreadGone
    /\ UNCHANGED <<ch_head, ch_stamp, ch_msg, rcv, sent, received, ch_ret>>
    /\ ChanOnly

\* Drop for ReceiveEnd: the last Receiver goes away between two calls
drop_ReceiveEnd ==
    /\ rcv.pc = "idle"
    /\ ch_tail' = disconnect(ch_tail)
    /\ rcv' = ThreadGone
    /\ UNCHANGED <<ch_head, ch_stamp, ch_msg, snd, sent, received, ch_ret>>
    /\ ChanOnly

ChanNext ==
    \/ \E v \in Msgs : try_send(v)
    \/ start_send_load_stamp
    \/ start_send_cas
    \/ start_send_load_head
    \/ start_send_load_tail
    \/ write_msg
    \/ write_stamp
    \/ try_recv
    \/ start_recv_load_stamp
    \/ start_recv_cas
    \/ start_recv_load_tail
    \/ start_recv_load_head
    \/ read_msg
    \/ read_stamp
    \/ drop_SendEnd
    \/ drop_ReceiveEnd

RingParked == RingInit

InitChannel == ChanInit /\ RingParked /\ StreamsParked /\ SocketsParked /\ DtlsParked /\ SeqParked /\ DrainParked

SpecChannel == InitChannel /\ [][ChanNext]_<<chan_vars, vars, strm_vars, sock_vars, dtls_vars, seq_vars, drain_vars>>

ChanTypeOK ==
    /\ ch_head \in Nat /\ ch_tail \in Nat
    /\ ch_stamp \in [Slots -> Nat]
    /\ ch_msg \in [Slots -> Msgs \cup {Uninit}]
    /\ sent \in Seq(Msgs) /\ Len(sent) <= MaxMsgs
    /\ received \in Seq(Msgs \cup {Uninit})


(***************************************************************************)
(* Properties of the channel                                               *)
(***************************************************************************)

IsPrefix(s, u) == Len(s) <= Len(u) /\ \A i \in 1 .. Len(s) : s[i] = u[i]

\* the number of messages a stamp stands for: laps * cap + index
position(x) == (lap_of(x) \div one_lap) * ChanCap + index_of(x)

\* the slots claimed by senders and not yet claimed by a receiver
QueueLen == position(without_mark(ch_tail)) - position(ch_head)

\* a step in which try_send returns
SendReturns == snd.pc \notin {"idle", "dropped"} /\ snd'.pc = "idle"
\* a step in which try_recv returns
RecvReturns == rcv.pc \notin {"idle", "dropped"} /\ rcv'.pc = "idle"

\* C12: with one sender and one receiver running concurrently, in every
\* state the messages try_recv has returned are the first messages
\* try_send accepted, in send order and each once; the cell the receiver
\* reads after claiming a slot holds the published message that comes next
\* in send order, never an unwritten cell.
C12_ChannelFifo ==
    /\ IsPrefix(received, sent)
    /\ rcv.pc = "read_msg" =>
          /\ Len(received) < Len(sent)
          /\ ch_msg[rcv.token.slot] = sent[Len(received) + 1]
          /\ ch_stamp[rcv.token.slot] = rcv.pos + 1
    /\ rcv.pc = "read_stamp" => rcv.msg = sent[Len(received) + 1]

\* both threads are in the middle of a call, on the second lap of the buffer,
\* and everything sent so far but one has been received
C12_Witness ==
    /\ snd.pc = "write_msg" /\ rcv.pc = "read_msg"
    /\ Len(received) >= ChanCap
    /\ Len(sent) = Len(received) + 1

\* C13: the channel never holds more than ChanCap messages; try_send
\* returns Full, with the message it was given and without having changed
\* the channel, exactly when ChanCap slots are taken at the moment it looks
\* at the head, the tail it read carrying no disconnect mark; a slot is
\* claimed only while fewer than ChanCap are taken.
C13_Bounded ==
    /\ [](/\ QueueLen \in 0 .. ChanCap
          /\ Len(sent) - Len(received) \in 0 .. ChanCap
          /\ snd.token = NullToken \/ snd.pc \in {"write_msg", "write_stamp"})
    /\ [][/\ (snd.pc = "load_head" /\ snd' /= snd) =>
                ((SendReturns /\ ch_ret'.res = "Full") <=> QueueLen = ChanCap)
          /\ (SendReturns /\ ch_ret'.res = "Full") =>
                /\ snd.pc = "load_head"
                /\ ch_ret'.msg = snd.msg
                /\ ~marked(snd.pos) /\ ~snd.late
                /\ snd.token = NullToken
                /\ UNCHANGED <<ch_head, ch_tail, ch_stamp, ch_msg, sent, received>>
          /\ (snd.pc = "cas" /\ snd'.pc = "write_msg") => QueueLen < ChanCap
         ]_chan_vars

\* try_send has just returned Full on a channel that wrapped around
C13_Witness ==
    /\ ch_ret.op = "try_send" /\ ch_ret.res = "Full"
    /\ QueueLen = ChanCap
    /\ Len(received) >= 1
    /\ snd.pc = "idle"


\* the messages accepted and not yet returned
Undelivered == Len(sent) - Len(received)

\* what holds of the disconnect mark and of try_send once a handle is gone
DisconnectSticks ==
    /\ [](/\ (snd.pc = "dropped" \/ rcv.pc = "dropped") => is_disconnected
          /\ snd.late => snd.pc = "idle"
          /\ (ch_ret.op = "try_send" /\ ch_ret.late) =>
                (ch_ret.res = "Disconnected" /\ ch_ret.msg = Len(sent) + 1))
    /\ [][/\ is_disconnected => is_disconnected'
          /\ (ch_ret'.op = "try_send" /\ ch_ret'.late) => UNCHANGED <<ch_msg, ch_stamp, sent>>
         ]_chan_vars

\* C14 as stated: once a handle of the channel has been dropped the channel
\* is disconnected for good, and every try_send and every try_recv begun
\* after that returns Disconnected, try_send with its message.
C14_DisconnectReported ==
    /\ DisconnectSticks
    /\ [][(RecvReturns /\ rcv.late) => ch_ret'.res = "Disconnected"]_chan_vars

\* C14, amended: once a handle of the channel has been dropped the channel
\* is disconnected for good and every try_send begun after that returns
\* Disconnected with its message; a try_recv begun after that returns the
\* oldest message still queued while there is one, and Disconnected exactly
\* when none is queued.
C14_DisconnectAfterDrain ==
    /\ DisconnectSticks
    /\ [][(RecvReturns /\ rcv.late) =>
              IF Undelivered = 0
              THEN ch_ret'.res = "Disconnected" /\ received' = received
              ELSE /\ ch_ret'.res = "Ok"
                   /\ ch_ret'.msg = sent[Len(received) + 1]
                   /\ received' = Append(received, ch_ret'.msg)
         ]_chan_vars

\* the Sender is gone and a try_recv begun after that has returned a message
C14_Witness ==
    /\ snd.pc = "dropped"
    /\ ch_ret.op = "try_recv" /\ ch_ret.late /\ ch_ret.res = "Ok"
    /\ Undelivered >= 1


(***************************************************************************)
(* Part 3: the message-stream acceptor and connector                       *)
(* (stream/message/non_blocking.rs).  accept(), run() and connect() run on *)
(* the thread that owns the acceptor or connector, the calls on a          *)
(* NonBlockingMessageStream on the thread of its user; each call is one    *)
(* action.  A channel of a duplex pair is the queue that Part 2 shows the  *)
(* Sender / Receiver pair to be, and the two handles of a DuplexChannel    *)
(* are dropped in one step.                                                *)
(***************************************************************************)

NumPeers == 2             \* the peer addresses are 1 .. NumPeers
StreamCap == 2            \* the capacity given to duplex_channel: 1024 in the
                          \* source, which the code uses only in the full test
MaxLen == 2               \* a datagram is MaxLen bytes long, a user buffer 1 .. MaxLen
MaxDatagrams == 3         \* datagrams that arrive at the socket
MaxSends == 2             \* messages the user sends into its streams
MaxCalls == 3             \* calls of accept() / run() / connect()
MaxConnects == 2          \* calls of connect() among them
MaxFaults == 1            \* errors the socket reports
MaxRoom == 1              \* sends the socket takes in one call before it would block

MaintenancePeriod == 1024 \* maintenance: "if self.accept_call_cnt >= 1024"

Peers == 1 .. NumPeers
Lengths == 1 .. MaxLen

\* a message: its identity and its length in bytes
NoData == [id |-> 0, len |-> 0]

\* Option<NonBlockingMessageStream>::None
NoStream == 0

\* channel(cap) seen from one thread at a time: Sender::try_send
chan_try_send(q, mark, dgram) ==
    IF mark THEN [q |-> q, res |-> "Disconnected"]
    ELSE IF Len(q) >= StreamCap THEN [q |-> q, res |-> "Full"]
    ELSE [q |-> Append(q, dgram), res |-> "Ok"]

\* Receiver::try_receive
chan_try_recv(q, mark) ==
    IF q /= <<>> THEN [q |-> Tail(q), res |-> "Ok", data |-> Head(q)]
    ELSE IF mark THEN [q |-> q, res |-> "Disconnected", data |-> NoData]
    ELSE [q |-> q, res |-> "Empty", data |-> NoData]

\* duplex_channel(StreamCap): c1 carries backend -> user, c2 user -> backend.
\* first and taken are history: the datagram the stream was created for and
\* the number of messages its user has received.
new_link(peer, first) ==
    [peer |-> peer, c1 |-> <<>>, c2 |-> <<>>, c1_mark |-> FALSE, c2_mark |-> FALSE,
     first |-> first, taken |-> 0]

\* dropping a DuplexChannel drops its Sender and its Receiver: both channels
\* of the pair are disconnected
drop_duplex(l) == [l EXCEPT !.c1_mark = TRUE, !.c2_mark = TRUE]

\* DuplexChannel::is_disconnected
duplex_is_disconnected(l) == l.c2_mark \/ l.c1_mark

\* NonBlockingMessageStreamChannel::new
new_backend(sid) == [sid |-> sid, buffered |-> NoData, dropped |-> 0]

\* a try_tx that drains the queue before it yields the buffered message
try_tx_queue_first(b, l) ==
    LET r == chan_try_recv(l.c2, l.c2_mark)
    IN  IF r.res = "Ok" \/ b.buffered = NoData
        THEN [b |-> b, l |-> [l EXCEPT !.c2 = r.q], res |-> r.res, data |-> r.data]
        ELSE [b |-> [b EXCEPT !.buffered = NoData], l |-> l, res |-> "Ok", data |-> b.buffered]

\* NonBlockingMessageStreamChannel::try_tx
try_tx(b, l) ==
    IF b.buffered /= NoData
    THEN [b |-> [b EXCEPT !.buffered = NoData], l |-> l, res |-> "Ok", data |-> b.buffered]
    ELSE LET r == chan_try_recv(l.c2, l.c2_mark)
         IN  [b |-> b, l |-> [l EXCEPT !.c2 = r.q], res |-> r.res, data |-> r.data]

on_tx_failed_drop(b, dgram) == b

\* NonBlockingMessageStreamChannel::on_tx_failed
on_tx_failed(b, dgram) == [b EXCEPT !.buffered = dgram]

on_recv_uncounted(b, l, dgram) ==
    LET r == chan_try_send(l.c1, l.c1_mark, dgram)
    IN  [b |-> b, l |-> [l EXCEPT !.c1 = r.q],
         res |-> IF r.res = "Full" THEN "Dropped" ELSE r.res]

\* NonBlockingMessageStreamChannel::on_recv
on_recv(b, l, dgram) ==
    LET r == chan_try_send(l.c1, l.c1_mark, dgram)
    IN  CASE r.res = "Ok" -> [b |-> b, l |-> [l EXCEPT !.c1 = r.q], res |-> "Ok"]
          [] r.res = "Disconnected" -> [b |-> b, l |-> l, res |-> "Disconnected"]
          [] r.res = "Full" -> [b |-> [b EXCEPT !.dropped = @ + 1], l |-> l, res |-> "Dropped"]

\* the state accept() and run() work on, with what the call has done so far:
\* read are the socket events taken, wire the datagrams sent, pumped the
\* peers whose stream the outbound pump has visited.  During the call
\* io.try_send_to takes room datagrams before it would block, and if fault
\* it fails with an error the first time it is called.
World(room, fault) ==
    [streams |-> streams, links |-> links, cnt |-> accept_call_cnt,
     io_rx |-> io_rx, room |-> room, fault |-> fault,
     swept |-> FALSE, read |-> <<>>, wire |-> <<>>, pumped |-> <<>>]

\* HashMap::insert of a backend for peer; a backend it replaces is dropped
insert_backend(w, peer, b, l) ==
    LET old == IF peer \in DOMAIN w.streams
               THEN [w.links EXCEPT ![w.streams[peer].sid] = drop_duplex(@)]
               ELSE w.links
    IN  [w EXCEPT !.streams = [a \in DOMAIN w.streams \cup {peer} |->
                                  IF a = peer THEN b ELSE w.streams[a]],
                  !.links = Append(old, l)]

\* NonBlockingStreamCollection::emplace_stream
emplace_stream(w, peer) ==
    LET sid == Len(w.links) + 1
    IN  [w |-> insert_backend(w, peer, new_backend(sid), new_link(peer, NoData)),
         stream |-> sid]

emplace_new_stream_without_data(w, dgram, peer) == emplace_stream(w, peer)

\* NonBlockingStreamCollection::emplace_new_stream_with_data; on_recv into
\* the new channel is unwrapped, and cannot fail
emplace_new_stream_with_data(w, dgram, peer) ==
    LET sid == Len(w.links) + 1
        r == on_recv(new_backend(sid), new_link(peer, dgram), dgram)
    IN  [w |-> insert_backend(w, peer, r.b, r.l), stream |-> sid]

\* NonBlockingStreamCollection::clean_dead_channels
clean_dead_channels(w) ==
    LET dead == { a \in DOMAIN w.streams : duplex_is_disconnected(w.links[w.streams[a].sid]) }
        gone == { w.streams[a].sid : a \in dead }
    IN  [w EXCEPT !.streams = [a \in DOMAIN w.streams \ dead |-> w.streams[a]],
                  !.links = [s \in DOMAIN w.links |->
                                IF s \in gone THEN drop_duplex(w.links[s]) ELSE w.links[s]]]

maintenance_late(w) ==
    IF w.cnt + 1 > MaintenancePeriod
    THEN [clean_dead_channels(w) EXCEPT !.cnt = 0, !.swept = TRUE]
    ELSE [w EXCEPT !.cnt = w.cnt + 1]

\* NonBlockingStreamCollection::maintenance
maintenance(w) ==
    IF w.cnt + 1 >= MaintenancePeriod
    THEN [clean_dead_channels(w) EXCEPT !.cnt = 0, !.swept = TRUE]
    ELSE [w EXCEPT !.cnt = w.cnt + 1]

\* a backend and its link after one of their operations
put_back(w, peer, r) ==
    [w EXCEPT !.streams[peer] = r.b, !.links[r.b.sid] = r.l]

on_rx_no_replace(w, dgram, addr) ==
    IF addr \in DOMAIN w.streams
    THEN LET b == w.streams[addr]
         IN  [w |-> put_back(w, addr, on_recv(b, w.links[b.sid], dgram)), stream |-> NoStream]
    ELSE emplace_new_stream_with_data(w, dgram, addr)

\* NonBlockingMessageStreamAcceptor::on_rx
on_rx(w, dgram, addr) ==
    IF addr \in DOMAIN w.streams
    THEN LET b == w.streams[addr]
             r == on_recv(b, w.links[b.sid], dgram)
         IN  IF r.res = "Disconnected"
             THEN emplace_new_stream_with_data(w, dgram, addr)
             ELSE [w |-> put_back(w, addr, r), stream |-> NoStream]
    ELSE emplace_new_stream_with_data(w, dgram, addr)

\* accept: the "while let Some(r) = self.io.try_recv_from(..)" loop
RECURSIVE accept_rx(_)
accept_rx(w) ==
    IF w.io_rx = <<>>
    THEN [w |-> w, kind |-> "none", stream |-> NoStream]
    ELSE LET e == Head(w.io_rx)
             w1 == [w EXCEPT !.io_rx = Tail(@), !.read = Append(@, e)]
         IN  IF e.kind = "err"
             THEN [w |-> w1, kind |-> "rx_err", stream |-> NoStream]
             ELSE LET r == on_rx(w1, e.data, e.addr)
                  IN  IF r.stream /= NoStream
                      THEN [w |-> r.w, kind |-> "stream", stream |-> r.stream]
                      ELSE accept_rx(r.w)

\* run: the "while let Some(event) = self.io.try_recv_from(..)" loop
RECURSIVE run_rx(_)
run_rx(w) ==
    IF w.io_rx = <<>>
    THEN [w |-> w, kind |-> "none", stream |-> NoStream]
    ELSE LET e == Head(w.io_rx)
             w1 == [w EXCEPT !.io_rx = Tail(@), !.read = Append(@, e)]
         IN  IF e.kind = "err"
             THEN [w |-> w1, kind |-> "rx_err", stream |-> NoStream]
             ELSE IF e.addr \in DOMAIN w1.streams
                  THEN LET b == w1.streams[e.addr]
                       IN  run_rx(put_back(w1, e.addr, on_recv(b, w1.links[b.sid], e.data)))
                  ELSE run_rx(w1)

\* accept / run: the inner "loop" of the outbound pump for the stream of addr
RECURSIVE pump_stream(_, _)
pump_stream(w, addr) ==
    LET b == w.streams[addr]
        t == try_tx(b, w.links[b.sid])
        w1 == put_back(w, addr, t)
    IN  IF t.res /= "Ok"
        THEN [w |-> w1, err |-> FALSE]
        ELSE IF w1.fault
             THEN [w |-> [w1 EXCEPT !.streams[addr] = on_tx_failed(t.b, t.data),
                                    !.fault = FALSE],
                   err |-> TRUE]
             ELSE IF w1.room = 0
                  THEN [w |-> [w1 EXCEPT !.streams[addr] = on_tx_failed(t.b, t.data)],
                        err |-> FALSE]
                  ELSE pump_stream([w1 EXCEPT !.room = @ - 1,
                                              !.wire = Append(@, [addr |-> addr, data |-> t.data])],
                                   addr)

RECURSIVE pump(_, _)

pump_through(w, order) ==
    IF order = <<>>
    THEN [w |-> w, kind |-> "none", stream |-> NoStream]
    ELSE pump(pump_stream([w EXCEPT !.pumped = Append(@, Head(order))], Head(order)).w,
              Tail(order))

\* accept / run: "for (addr, ch) in self.streams.iter_mut()", in the order
\* the map yields its entries
pump(w, order) ==
    IF order = <<>>
    THEN [w |-> w, kind |-> "none", stream |-> NoStream]
    ELSE LET r == pump_stream([w EXCEPT !.pumped = Append(@, Head(order))], Head(order))
         IN  IF r.err
             THEN [w |-> r.w, kind |-> "tx_err", stream |-> NoStream]
             ELSE pump(r.w, Tail(order))

\* the orders in which a HashMap may yield the entries of keys
RECURSIVE Orders(_)
Orders(keys) ==
    IF keys = {} THEN {<<>>}
    ELSE UNION { { <<a>> \o o : o \in Orders(keys \ {a}) } : a \in keys }

\* the entries of the map in the order pref puts the peers in
iter_mut(w, pref) == SelectSeq(pref, LAMBDA a : a \in DOMAIN w.streams)

accept_rx_only(w, pref) == accept_rx(maintenance(w))

\* NonBlockingMessageStreamAcceptor::accept
accept(w, pref) ==
    LET r == accept_rx(maintenance(w))
    IN  IF r.kind = "none" THEN pump(r.w, iter_mut(r.w, pref)) ELSE r

run_accepting(w, pref) ==
    LET r == accept_rx(w)
    IN  IF r.kind = "none" THEN pump(r.w, iter_mut(r.w, pref)) ELSE r

\* NonBlockingMessageStreamConnector::run
run(w, pref) ==
    LET r == run_rx(w)
    IN  IF r.kind = "none" THEN pump(r.w, iter_mut(r.w, pref)) ELSE r

NoCall == [call |-> "none", kind |-> "none", stream |-> NoStream, swept |-> FALSE,
           read |-> <<>>, wire |-> <<>>, pumped |-> <<>>]
NoUserCall == [op |-> "none", stream |-> NoStream, res |-> "none", data |-> NoData,
               buf |-> 0]

\* NonBlockingMessageStreamAcceptor::new or NonBlockingMessageStreamConnector::new
\* with NonBlockingStreamCollection::default; an acceptor may already have been
\* called MaintenancePeriod - 2 times with nothing to do
StreamsInit ==
    /\ role \in {"acceptor", "connector"}
    /\ streams = <<>>
    /\ accept_call_cnt \in (IF role = "acceptor" THEN {0, MaintenancePeriod - 2} ELSE {0})
    /\ accepts = accept_call_cnt
    /\ links = <<>>
    /\ held = {}
    /\ io_rx = <<>>
    /\ acc_ret = NoCall
    /\ usr_ret = NoUserCall
    /\ budget = [dgrams |-> 0, sends |-> 0, calls |-> 0, connects |-> 0, faults |-> 0]

\* the other parts stay parked
StreamsOnly == UNCHANGED <<vars, chan_vars, sock_vars, dtls_vars, seq_vars, drain_vars>>

\* acc_ret and usr_ret show what a call returned in the state it returns to
Quiet == acc_ret' = NoCall /\ usr_ret' = NoUserCall

\* Drop for Channel: when the backend and the user stream of a pair are both
\* gone, the channels and the messages left in them are freed
drop_channels(ls, ss, hs) ==
    [s \in DOMAIN ls |->
        IF s \notin hs /\ (\A a \in DOMAIN ss : ss[a].sid /= s)
        THEN [drop_duplex(new_link(ls[s].peer, NoData)) EXCEPT !.taken = 0]
        ELSE ls[s]]

\* the result r of accept / run / connect becomes the state
Returns(call, r) ==
    /\ streams' = r.w.streams
    /\ held' = IF r.stream = NoStream THEN held ELSE held \cup {r.stream}
    /\ links' = drop_channels(r.w.links, r.w.streams, held')
    /\ accept_call_cnt' = r.w.cnt
    /\ io_rx' = r.w.io_rx
    /\ acc_ret' = [call |-> call, kind |-> r.kind, stream |-> r.stream, swept |-> r.w.swept,
                   read |-> r.w.read, wire |-> r.w.wire, pumped |-> r.w.pumped]
    /\ usr_ret' = NoUserCall

\* a datagram from peer a reaches the socket
Arrive(a) ==
    /\ budget.dgrams < MaxDatagrams
    /\ io_rx' = Append(io_rx, [kind |-> "dgram", addr |-> a,
                               data |-> [id |-> budget.dgrams + 1, len |-> MaxLen]])
    /\ budget' = [budget EXCEPT !.dgrams = @ + 1]
    /\ Quiet
    /\ UNCHANGED <<role, streams, accept_call_cnt, links, held, accepts>>
    /\ StreamsOnly

\* the socket has an error to report on receive
RxFault ==
    /\ budget.faults < MaxFaults
    /\ io_rx' = Append(io_rx, [kind |-> "err", addr |-> 0, data |-> NoData])
    /\ budget' = [budget EXCEPT !.faults = @ + 1]
    /\ Quiet
    /\ UNCHANGED <<role, streams, accept_call_cnt, links, held, accepts>>
    /\ StreamsOnly

\* one more call, and one more fault if the call met the send error
Spent(fault, r) ==
    budget' = [budget EXCEPT !.calls = @ + 1,
                             !.faults = IF fault /\ ~r.w.fault THEN @ + 1 ELSE @]

\* acceptor.accept()
Accept(pref, room, fault) ==
    /\ role = "acceptor"
    /\ budget.calls < MaxCalls
    /\ fault => budget.faults < MaxFaults
    /\ LET r == accept(World(room, fault), pref)
       IN  Returns("accept", r) /\ Spent(fault, r)
    /\ accepts' = accepts + 1
    /\ UNCHANGED role
    /\ StreamsOnly

\* connector.run()
Run(pref, room, fault) ==
    /\ role = "connector"
    /\ budget.calls < MaxCalls
    /\ fault => budget.faults < MaxFaults
    /\ LET r == run(World(room, fault), pref)
       IN  Returns("run", r) /\ Spent(fault, r)
    /\ UNCHANGED <<role, accepts>>
    /\ StreamsOnly

\* connector.connect(a)
Connect(a) ==
    /\ role = "connector"
    /\ budget.connects < MaxConnects
    /\ budget.calls < MaxCalls
    /\ LET r == emplace_stream(World(0, FALSE), a)
       IN  Returns("connect", [w |-> r.w, kind |-> "stream", stream |-> r.stream])
    /\ budget' = [budget EXCEPT !.connects = @ + 1, !.calls = @ + 1]
    /\ UNCHANGED <<role, accepts>>
    /\ StreamsOnly

\* NonBlockingMessageStream::try_recv(buf) with a buffer of buflen bytes
StreamTryRecv(s, buflen) ==
    /\ s \in held
    /\ LET r == chan_try_recv(links[s].c1, links[s].c1_mark)
           copied == IF r.data.len > buflen THEN buflen ELSE r.data.len
       IN  /\ links' = [links EXCEPT ![s].c1 = r.q,
                                     ![s].taken = IF r.res = "Ok" THEN @ + 1 ELSE @]
           /\ usr_ret' = [op |-> "try_recv", stream |-> s,
                          res |-> CASE r.res = "Ok" -> "Ok"
                                    [] r.res = "Disconnected" -> "Closed"
                                    [] r.res = "Empty" -> "None",
                          data |-> IF r.res = "Ok" THEN [r.data EXCEPT !.len = copied]
                                   ELSE NoData,
                          buf |-> buflen]
    /\ acc_ret' = NoCall
    /\ UNCHANGED <<role, streams, accept_call_cnt, held, io_rx, accepts, budget>>
    /\ StreamsOnly

\* NonBlockingMessageStream::try_send(buf) with a message of one byte
StreamTrySend(s) ==
    /\ s \in held
    /\ budget.sends < MaxSends
    /\ LET m == [id |-> budget.sends + 1, len |-> 1]
           r == chan_try_send(links[s].c2, links[s].c2_mark, m)
       IN  /\ links' = [links EXCEPT ![s].c2 = r.q]
           /\ usr_ret' = [op |-> "try_send", stream |-> s,
                          res |-> CASE r.res = "Ok" -> "Ok"
                                    [] r.res = "Disconnected" -> "Closed"
                                    [] r.res = "Full" -> "None",
                          data |-> m, buf |-> m.len]
           /\ budget' = [budget EXCEPT !.sends = IF r.res = "Ok" THEN @ + 1 ELSE @]
    /\ acc_ret' = NoCall
    /\ UNCHANGED <<role, streams, accept_call_cnt, held, io_rx, accepts>>
    /\ StreamsOnly

\* the user drops a NonBlockingMessageStream, and with it its DuplexChannel
StreamDrop(s) ==
    /\ s \in held
    /\ held' = held \ {s}
    /\ links' = drop_channels([links EXCEPT ![s] = drop_duplex(@)], streams, held')
    /\ Quiet
    /\ UNCHANGED <<role, streams, accept_call_cnt, io_rx, accepts, budget>>
    /\ StreamsOnly

StreamIds == 1 .. (MaxDatagrams + MaxConnects)

StreamsNext ==
    \/ \E a \in Peers : Arrive(a)
    \/ RxFault
    \/ \E pref \in Orders(Peers), room \in 0 .. MaxRoom, fault \in BOOLEAN :
          Accept(pref, room, fault)
    \/ \E pref \in Orders(Peers), room \in 0 .. MaxRoom, fault \in BOOLEAN :
          Run(pref, room, fault)
    \/ \E a \in Peers : Connect(a)
    \/ \E s \in StreamIds, buflen \in Lengths : StreamTryRecv(s, buflen)
    \/ \E s \in StreamIds : StreamTrySend(s)
    \/ \E s \in StreamIds : StreamDrop(s)

InitStreams == StreamsInit /\ RingParked /\ ChanParked /\ SocketsParked /\ DtlsParked /\ SeqParked /\ DrainParked

SpecStreams == InitStreams /\ [][StreamsNext]_<<strm_vars, vars, chan_vars, sock_vars, dtls_vars, seq_vars, drain_vars>>

StreamsTypeOK ==
    /\ DOMAIN streams \subseteq Peers
    /\ \A a \in DOMAIN streams :
          /\ streams[a].sid \in 1 .. Len(links)
          /\ links[streams[a].sid].peer = a
    /\ held \subseteq 1 .. Len(links)
    /\ accept_call_cnt \in 0 .. (MaintenancePeriod - 1)


(***************************************************************************)
(* Properties of the acceptor and the connector                            *)
(***************************************************************************)

\* a step that is a call of accept()
AcceptStep == acc_ret'.call = "accept"

\* the socket events the call of this step took, oldest first
ReadNow == acc_ret'.read

\* the call of this step made a stream for the datagram e, put e into it as
\* its only inbound message, installed it for the source address of e and
\* returned it
NewStreamFor(e) ==
    LET sid == acc_ret'.stream
    IN  /\ acc_ret'.kind = "stream"
        /\ sid = Len(links) + 1
        /\ e.addr \in DOMAIN streams' /\ streams'[e.addr].sid = sid
        /\ sid \in held'
        /\ links'[sid].peer = e.addr
        /\ links'[sid].c1 = <<e.data>> /\ links'[sid].first = e.data
        /\ ~duplex_is_disconnected(links'[sid])

\* the first try_recv of the user on a stream made for a datagram
FirstTryRecv ==
    /\ usr_ret'.op = "try_recv"
    /\ links[usr_ret'.stream].taken = 0
    /\ links[usr_ret'.stream].first /= NoData

AcceptMakesStream ==
    AcceptStep =>
        \A i \in DOMAIN ReadNow :
            (ReadNow[i].kind = "dgram" /\ ReadNow[i].addr \notin DOMAIN streams) =>
                (i = Len(ReadNow) /\ NewStreamFor(ReadNow[i]))

\* C15 as stated: a datagram accept() reads from an address without a
\* stream ends the call with a new stream for that address, holding the
\* datagram as its first inbound message, and the first try_recv on that
\* stream returns exactly that datagram.
C15_FirstMessageExact ==
    [][/\ AcceptMakesStream
       /\ FirstTryRecv =>
             (usr_ret'.res = "Ok" /\ usr_ret'.data = links[usr_ret'.stream].first)
      ]_strm_vars

\* C15, amended: a datagram accept() reads from an address without a stream
\* ends the call with a new stream for that address, holding the datagram as
\* its first inbound message, and the first try_recv on that stream returns
\* that datagram, cut to the length of the buffer it is given when the
\* buffer is shorter than the datagram.
C15_FirstMessage ==
    [][/\ AcceptMakesStream
       /\ FirstTryRecv =>
             LET first == links[usr_ret'.stream].first
             IN  /\ usr_ret'.res = "Ok"
                 /\ usr_ret'.data.id = first.id
                 /\ usr_ret'.data.len = IF first.len > usr_ret'.buf
                                        THEN usr_ret'.buf ELSE first.len
                 /\ links'[usr_ret'.stream].c1 = Tail(links[usr_ret'.stream].c1)
      ]_strm_vars

\* the user has received the first message of an accepted stream into a
\* buffer shorter than the datagram
C15_Witness ==
    /\ role = "acceptor"
    /\ usr_ret.op = "try_recv" /\ usr_ret.res = "Ok"
    /\ links[usr_ret.stream].taken = 1
    /\ links[usr_ret.stream].first.id = usr_ret.data.id
    /\ usr_ret.data.len < links[usr_ret.stream].first.len

\* the user has dropped the stream the collection has for address a
DroppedByUser(a) ==
    /\ a \in DOMAIN streams
    /\ streams[a].sid \notin held
    /\ duplex_is_disconnected(links[streams[a].sid])

\* the links of peer p both of whose channels are connected
LiveLinks(p) ==
    { s \in DOMAIN links : links[s].peer = p /\ ~links[s].c1_mark /\ ~links[s].c2_mark }

\* C16: when the user has dropped the stream of a peer, the first datagram
\* accept() reads from that peer ends the call: the old backend is out of
\* the collection and disconnected, a new stream holding that datagram as
\* its only inbound message is installed and returned; and a peer never has
\* more than one connected stream, in the collection or outside.
C16_Replacement ==
    /\ [](\A p \in Peers : Cardinality(LiveLinks(p)) <= 1)
    /\ [][AcceptStep =>
            \A i \in DOMAIN ReadNow :
                (ReadNow[i].kind = "dgram" /\ DroppedByUser(ReadNow[i].addr)) =>
                    /\ i = Len(ReadNow)
                    /\ NewStreamFor(ReadNow[i])
                    /\ duplex_is_disconnected(links'[streams[ReadNow[i].addr].sid])
                    /\ \A a \in DOMAIN streams' :
                          streams'[a].sid /= streams[ReadNow[i].addr].sid
         ]_strm_vars

\* accept() has just replaced a stream the user had dropped, in a call that
\* did not sweep
C16_Witness ==
    /\ acc_ret.call = "accept" /\ acc_ret.kind = "stream" /\ ~acc_ret.swept
    /\ \E s \in DOMAIN links :
          /\ s < acc_ret.stream
          /\ links[s].peer = links[acc_ret.stream].peer
          /\ duplex_is_disconnected(links[s])
    /\ links[acc_ret.stream].c1 /= <<>>


\* the datagrams from peer a among the socket events evs, oldest first
DatagramsFrom(a, evs) ==
    LET mine == SelectSeq(evs, LAMBDA e : e.kind = "dgram" /\ e.addr = a)
    IN  [i \in 1 .. Len(mine) |-> mine[i].data]

\* the first n elements of s, or all of s
Take(s, n) == SubSeq(s, 1, IF Len(s) < n THEN Len(s) ELSE n)

\* peer a has a stream in the collection neither side of which is dropped
HasLiveStream(a) ==
    a \in DOMAIN streams /\ ~duplex_is_disconnected(links[streams[a].sid])

\* C17: in a call of accept(), the datagrams read from a peer with a live
\* stream go to the end of that stream's inbound queue in arrival order for
\* as long as the queue has room; each datagram read while the queue is full
\* is discarded and adds exactly one to the drop counter of the stream; the
\* stream stays the stream of its peer, the call returns no stream for such
\* a datagram, and a stream no datagram was read for keeps its inbound queue
\* and its drop counter.
C17_DemuxAndOverflow ==
    [][AcceptStep =>
          \A a \in Peers :
              HasLiveStream(a) =>
                  LET sid == streams[a].sid
                      offered == links[sid].c1 \o DatagramsFrom(a, ReadNow)
                  IN  /\ a \in DOMAIN streams' /\ streams'[a].sid = sid
                      /\ links'[sid].c1 = Take(offered, StreamCap)
                      /\ streams'[a].dropped =
                            streams[a].dropped + Len(offered) - Len(links'[sid].c1)
                      /\ acc_ret'.stream /= sid
                      /\ acc_ret'.kind = "stream" => ReadNow[Len(ReadNow)].addr /= a
      ]_strm_vars

\* accept() has just discarded a datagram for a stream whose inbound queue
\* holds StreamCap datagrams in arrival order
C17_Witness ==
    /\ acc_ret.call = "accept"
    /\ \E a \in DOMAIN streams :
          /\ streams[a].dropped >= 1
          /\ Len(links[streams[a].sid].c1) = StreamCap
          /\ links[streams[a].sid].c1[1].id < links[streams[a].sid].c1[StreamCap].id
          /\ \E i \in DOMAIN acc_ret.read : acc_ret.read[i].addr = a


\* a step that is a call of accept() or of run()
CallStep == acc_ret'.call \in {"accept", "run"}

\* the outbound messages a backend holds: the buffered one, then its queue
OutQueue(b, l) == (IF b.buffered = NoData THEN <<>> ELSE <<b.buffered>>) \o l.c2

\* the messages the call of this step handed to the socket for peer a
WireTo(a) ==
    LET mine == SelectSeq(acc_ret'.wire, LAMBDA e : e.addr = a)
    IN  [i \in 1 .. Len(mine) |-> mine[i].data]

\* the outbound messages of the stream of peer a before and after this step
OutBefore(a) == OutQueue(streams[a], links[streams[a].sid])
OutAfter(a) == OutQueue(streams'[a], links'[streams'[a].sid])

\* C18: for every stream the outbound pump of a call visits, the messages
\* handed to the socket followed by the messages the stream still holds are
\* the messages it held before, in order: none is lost or overwritten.  In
\* a call that ends without a stream or an error the pump visits every
\* stream of the collection once, and a stream it leaves with messages, the
\* socket having reported would-block, has the refused message in its
\* buffered slot and every later message still in its queue.
C18_TxSafety ==
    [][CallStep =>
          /\ \A i \in DOMAIN acc_ret'.pumped :
                LET a == acc_ret'.pumped[i]
                IN  /\ a \in DOMAIN streams /\ a \in DOMAIN streams'
                    /\ streams'[a].sid = streams[a].sid
                    /\ OutBefore(a) = WireTo(a) \o OutAfter(a)
          /\ Len(acc_ret'.wire) <= MaxRoom
          /\ acc_ret'.kind = "none" =>
                \A a \in DOMAIN streams' :
                    /\ Cardinality({ i \in DOMAIN acc_ret'.pumped : acc_ret'.pumped[i] = a }) = 1
                    /\ IF OutAfter(a) = <<>>
                       THEN streams'[a].buffered = NoData
                       ELSE /\ streams'[a].buffered = Head(OutAfter(a))
                            /\ links'[streams'[a].sid].c2 = Tail(OutAfter(a))
      ]_strm_vars

\* a call has just left the stream it pumped first with a buffered message
\* and a later message in its queue, and has gone on to another stream
C18_Witness ==
    /\ acc_ret.call = "accept" /\ acc_ret.kind = "none"
    /\ Len(acc_ret.pumped) >= 2
    /\ LET a == acc_ret.pumped[1]
       IN  /\ streams[a].buffered /= NoData
           /\ links[streams[a].sid].c2 /= <<>>


\* the peers whose stream the outbound pump of the call of this step visited
PumpedNow == { acc_ret'.pumped[i] : i \in DOMAIN acc_ret'.pumped }

\* C19 as stated: every call of accept() and of run() runs the outbound
\* pump over all streams of the collection.
C19_TxEveryTick ==
    [][CallStep => PumpedNow = DOMAIN streams']_strm_vars

\* C19, amended: a call of accept() or run() that ends without a new stream
\* and without a transport error has run the outbound pump over every stream
\* of the collection, once each; a call that returns a new stream or a
\* receive error has not run the pump at all, so every stream keeps its
\* outbound messages; a call that returns a send error has pumped the
\* streams up to the one whose send failed, no stream twice.
C19_TxOnQuietTick ==
    [][CallStep =>
          /\ Cardinality(PumpedNow) = Len(acc_ret'.pumped)
          /\ PumpedNow \subseteq DOMAIN streams'
          /\ acc_ret'.kind = "none" => PumpedNow = DOMAIN streams'
          /\ acc_ret'.kind \in {"stream", "rx_err"} =>
                /\ acc_ret'.pumped = <<>> /\ acc_ret'.wire = <<>>
                /\ \A a \in DOMAIN streams :
                      (a \in DOMAIN streams' /\ streams'[a].sid = streams[a].sid) =>
                          OutAfter(a) = OutBefore(a)
          /\ acc_ret'.kind = "tx_err" =>
                /\ acc_ret'.pumped /= <<>>
                /\ streams'[acc_ret'.pumped[Len(acc_ret'.pumped)]].buffered /= NoData
      ]_strm_vars

\* run() has just ended without an error, having pumped a stream and sent
\* one of its messages
C19_Witness ==
    /\ acc_ret.call = "run" /\ acc_ret.kind = "none"
    /\ acc_ret.pumped /= <<>>
    /\ acc_ret.wire /= <<>>


\* the stream the collection has for peer a is disconnected
IsDead(a) == duplex_is_disconnected(links[streams[a].sid])

\* the call of this step left the stream of peer a in the collection
Kept(a) == a \in DOMAIN streams' /\ streams'[a].sid = streams[a].sid

\* C20: a call of accept() sweeps exactly when it is the 1024th, 2048th, ...
\* call; a sweeping call removes every stream that was disconnected when the
\* call began, whatever the call reads and returns afterwards, and keeps
\* every other stream; a call that does not sweep takes a stream out of the
\* collection only by installing the stream it returns in its place.
C20_Reaping ==
    [][AcceptStep =>
          /\ acc_ret'.swept <=> (accepts' % MaintenancePeriod = 0)
          /\ accepts' = accepts + 1
          /\ \A a \in DOMAIN streams :
                /\ ~IsDead(a) => Kept(a)
                /\ (acc_ret'.swept /\ IsDead(a)) => ~Kept(a)
                /\ ~Kept(a) =>
                      \/ acc_ret'.swept /\ IsDead(a)
                      \/ /\ acc_ret'.kind = "stream"
                         /\ a \in DOMAIN streams'
                         /\ streams'[a].sid = acc_ret'.stream
      ]_strm_vars

\* the 1024th call of accept() has just swept the only stream out of the
\* collection
C20_Witness ==
    /\ acc_ret.call = "accept" /\ acc_ret.swept
    /\ accepts = MaintenancePeriod
    /\ DOMAIN streams = {}
    /\ Len(links) >= 1


\* a step that is a call of connect(), and one that is a call of run()
ConnectStep == acc_ret'.call = "connect"
RunStep == acc_ret'.call = "run"

\* the datagrams queued towards the user in any channel pair
Inbound(ls) == UNION { { ls[s].c1[i] : i \in DOMAIN ls[s].c1 } : s \in DOMAIN ls }

\* C21: the connector's collection is changed only by connect(addr).  The
\* call inserts a fresh stream for addr (a new channel pair, empty both ways,
\* connected, handed to the caller; an empty backend) without reading the
\* socket or sending a datagram, leaves the streams of the other addresses
\* alone, and a stream that addr had before is replaced and its channel pair
\* disconnected.  No other step, run() included, adds, removes or replaces a
\* stream, and a datagram run() reads from an address without a stream is
\* queued in no channel.
C21_ConnectorStreamSet ==
    [][role = "connector" =>
        /\ ConnectStep =>
              LET s == acc_ret'.stream
                  a == links'[s].peer
              IN  /\ s = Len(links) + 1 /\ Len(links') = Len(links) + 1
                  /\ held' = held \cup {s}
                  /\ DOMAIN streams' = DOMAIN streams \cup {a}
                  /\ streams'[a] = [sid |-> s, buffered |-> NoData, dropped |-> 0]
                  /\ \A b \in DOMAIN streams \ {a} : streams'[b] = streams[b]
                  /\ links'[s].c1 = <<>> /\ links'[s].c2 = <<>>
                  /\ ~duplex_is_disconnected(links'[s])
                  /\ acc_ret'.wire = <<>> /\ acc_ret'.read = <<>> /\ io_rx' = io_rx
                  /\ a \in DOMAIN streams =>
                        duplex_is_disconnected(links'[streams[a].sid])
        /\ ~ConnectStep =>
              /\ DOMAIN streams' = DOMAIN streams
              /\ \A a \in DOMAIN streams : streams'[a].sid = streams[a].sid
              /\ Len(links') = Len(links)
        /\ RunStep =>
              \A i \in DOMAIN acc_ret'.read :
                 LET e == acc_ret'.read[i]
                 IN  (e.kind = "dgram" /\ e.addr \notin DOMAIN streams) =>
                        e.data \notin Inbound(links')
    ]_strm_vars

\* connect(addr) has just replaced a stream the user still holds, after a
\* datagram from an address without a stream had arrived and been read
C21_Witness ==
    /\ role = "connector"
    /\ acc_ret.call = "connect"
    /\ \E s \in held :
          /\ s < acc_ret.stream
          /\ links[s].peer = links[acc_ret.stream].peer
          /\ duplex_is_disconnected(links[s])
    /\ budget.dgrams > 0 /\ io_rx = <<>>


\* the socket events the call of this step took that are errors
RxErrors == { i \in DOMAIN acc_ret'.read : acc_ret'.read[i].kind = "err" }

\* io.try_send_to failed with an error during the call of this step
TxFailed == budget'.faults > budget.faults

\* C22: a call of accept() or run() returns a receive error exactly when
\* try_recv_from gave one, and then it is the last event the call took: the
\* events behind it stay in the socket and no stream is pumped.  It returns
\* a send error exactly when try_send_to failed, and then the failing send
\* is the last thing the call did: the stream pumped last holds the refused
\* message in its buffered slot, ahead of the messages still queued, and the
\* streams not yet visited keep their outbound messages and send nothing.
\* No call meets both errors.
C22_ErrorPropagation ==
    [][CallStep =>
          /\ acc_ret'.kind = "rx_err" <=> RxErrors /= {}
          /\ RxErrors /= {} =>
                /\ RxErrors = {Len(acc_ret'.read)}
                /\ io_rx = acc_ret'.read \o io_rx'
                /\ acc_ret'.pumped = <<>> /\ acc_ret'.wire = <<>>
                /\ ~TxFailed
          /\ acc_ret'.kind = "tx_err" <=> TxFailed
          /\ TxFailed =>
                LET a == acc_ret'.pumped[Len(acc_ret'.pumped)]
                IN  /\ acc_ret'.pumped /= <<>>
                    /\ streams'[a].buffered /= NoData
                    /\ OutBefore(a) = WireTo(a) \o OutAfter(a)
                    /\ OutAfter(a) = <<streams'[a].buffered>> \o links'[streams'[a].sid].c2
                    /\ \A b \in DOMAIN streams' \ PumpedNow :
                          /\ b \in DOMAIN streams /\ streams'[b].sid = streams[b].sid
                          /\ OutAfter(b) = OutBefore(b)
                          /\ WireTo(b) = <<>>
      ]_strm_vars

\* a call has just returned a send error from its first stream, and the
\* other stream, not visited, still holds a message to send
C22_Witness ==
    /\ acc_ret.kind = "tx_err"
    /\ Len(acc_ret.pumped) = 1
    /\ streams[acc_ret.pumped[1]].buffered /= NoData
    /\ \E b \in DOMAIN streams :
          /\ b /= acc_ret.pumped[1]
          /\ links[streams[b].sid].c2 /= <<>>


(***************************************************************************)
(* Part 4: the socket tables of the std runtime, Sockets of                *)
(* crates/rist-rs-std/src/net.rs, with the datagrams waiting in the UDP    *)
(* sockets and the user that holds the handles                             *)
(***************************************************************************)

NumAddrs == 2             \* the remote addresses are 1 .. NumAddrs
MaxBinds == 2             \* calls of bind() and add()
MaxSockConnects == 2      \* calls of connect()
MaxCloses == 2            \* calls of close()
MaxPolls == 2             \* calls of poll_events()
MaxArrivals == 2          \* datagrams and errors that reach the UDP sockets
MaxEvents == 2            \* an event buffer holds 1 .. MaxEvents events
MaxSockOps == 6           \* calls and arrivals altogether

\* usize, narrowed
UsizeBits == 8

usize_MAX == 2 ^ UsizeBits - 1

\* Sockets::SOCK_INDEX_PIVOT
SOCK_INDEX_PIVOT == usize_MAX \div 2

Addrs == 1 .. NumAddrs

\* Option<LocalSocket>: None, and Some of a UdpSocket with the datagrams
\* waiting in it and the map remotes
NoLocal == [some |-> FALSE, remotes |-> <<>>, pending |-> <<>>]
SomeLocal == [some |-> TRUE, remotes |-> <<>>, pending |-> <<>>]

\* Option<RemoteSocket>
NoRemote == [some |-> FALSE, local_socket_id |-> 0, remote_address |-> 0]
SomeRemote(l, a) == [some |-> TRUE, local_socket_id |-> l, remote_address |-> a]

\* HashMap::insert and HashMap::remove
map_insert(m, k, v) == [x \in DOMAIN m \cup {k} |-> IF x = k THEN v ELSE m[x]]
map_remove(m, k) == [x \in DOMAIN m \ {k} |-> m[x]]

\* the Sockets value the calls work on
SocketsNow ==
    [sockets |-> sockets, remote_sockets |-> remote_sockets,
     num_local_sockets |-> num_local_sockets,
     num_remote_sockets |-> num_remote_sockets]

\* a call that went through, one that returned an error, and one that panicked
Done(st, res) == [st |-> st, panic |-> FALSE, ok |-> TRUE, res |-> res]
Failed(st, err) == [st |-> st, panic |-> FALSE, ok |-> FALSE, res |-> err]
Panic(st) == [st |-> st, panic |-> TRUE, ok |-> FALSE, res |-> "panic"]

\* Sockets::update_active_socket_count
update_active_socket_count(st) ==
    [st EXCEPT
        !.num_remote_sockets =
            Cardinality({ i \in DOMAIN st.remote_sockets : st.remote_sockets[i].some }),
        !.num_local_sockets =
            Cardinality({ i \in DOMAIN st.sockets : st.sockets[i].some })]

\* Sockets::close_remote_socket; the vectors are indexed from 0, and the
\* index one past the end passes the guard
close_remote_socket(st, socket) ==
    LET idx == socket - SOCK_INDEX_PIVOT
    IN  IF idx <= Len(st.remote_sockets)
        THEN IF idx = Len(st.remote_sockets)
             THEN Panic(st)
             ELSE LET r == st.remote_sockets[idx + 1]
                      st1 == [st EXCEPT !.remote_sockets[idx + 1] = NoRemote]
                  IN  IF r.some /\ st1.sockets[r.local_socket_id + 1].some
                      THEN Done([st1 EXCEPT !.sockets[r.local_socket_id + 1].remotes =
                                               map_remove(@, r.remote_address)], "Ok")
                      ELSE Done(st1, "Ok")
        ELSE Done(st, "Ok")

\* Sockets::close_local_socket; "None => todo!()" panics
close_local_socket(st, socket) ==
    IF socket <= Len(st.sockets)
    THEN IF socket = Len(st.sockets)
         THEN Panic(st)
         ELSE LET l == st.sockets[socket + 1]
                  gone == { l.remotes[a] - SOCK_INDEX_PIVOT : a \in DOMAIN l.remotes }
              IN  IF l.some
                  THEN Done([st EXCEPT
                               !.sockets[socket + 1] = NoLocal,
                               !.remote_sockets =
                                   [i \in DOMAIN st.remote_sockets |->
                                       IF i - 1 \in gone THEN NoRemote
                                       ELSE st.remote_sockets[i]]], "Ok")
                  ELSE Panic(st)
    ELSE Done(st, "Ok")

\* Sockets::reserve_socket: the first free index, a None pushed if there is
\* none
reserve_socket(tab, none) ==
    LET free == { i \in DOMAIN tab : ~tab[i].some }
    IN  IF free = {}
        THEN [tab |-> Append(tab, none), idx |-> Len(tab)]
        ELSE [tab |-> tab, idx |-> (CHOOSE i \in free : \A j \in free : i <= j) - 1]

\* Sockets::add, and Sockets::bind when UdpSocket::bind succeeds
bind(st) ==
    LET r == reserve_socket(st.sockets, NoLocal)
    IN  Done(update_active_socket_count(
                [st EXCEPT !.sockets = [r.tab EXCEPT ![r.idx + 1] = SomeLocal]]), r.idx)

\* Sockets::close
close(st, socket) ==
    LET r == IF socket >= SOCK_INDEX_PIVOT
             THEN close_remote_socket(st, socket)
             ELSE close_local_socket(st, socket)
    IN  IF r.panic THEN r ELSE Done(update_active_socket_count(r.st), "Ok")

\* Sockets::connect; "self.sockets[local_socket_id]" panics past the end
connect(st, local_socket_id, remote_address) ==
    IF local_socket_id >= Len(st.sockets)
    THEN Panic(st)
    ELSE IF ~st.sockets[local_socket_id + 1].some
         THEN Failed(st, "InvalidInput")
         ELSE LET r == reserve_socket(st.remote_sockets, NoRemote)
                  remote_socket_id == r.idx + SOCK_INDEX_PIVOT
              IN  Done(update_active_socket_count(
                          [st EXCEPT
                              !.remote_sockets =
                                  [r.tab EXCEPT ![r.idx + 1] =
                                      SomeRemote(local_socket_id, remote_address)],
                              !.sockets[local_socket_id + 1].remotes =
                                  map_insert(@, remote_address, remote_socket_id)]),
                       remote_socket_id)

\* Socket::Empty
EmptySocket == -1

\* an IoEvent of IoEvent::allocate, and the events poll_events writes
NoEvent == [kind |-> "None", socket |-> EmptySocket, addr |-> 0, remote |-> EmptySocket, len |-> 0]
ReadableEvent(l, h) == [kind |-> "Readable", socket |-> l, addr |-> 0, remote |-> h, len |-> 1]
AcceptEvent(l, a, h) == [kind |-> "Accept", socket |-> l, addr |-> a, remote |-> h, len |-> 1]
ErrorEvent(l) == [kind |-> "Error", socket |-> l, addr |-> 0, remote |-> EmptySocket, len |-> 0]
WritableEvent(l, h) == [kind |-> "Writable", socket |-> l, addr |-> 0, remote |-> h, len |-> 0]

max(a, b) == IF a >= b THEN a ELSE b

\* poll_events: "(events.len() / self.num_local_sockets.max(1)) -
\* self.num_remote_sockets" goes below zero
reads_underflow(st, n) ==
    n \div max(st.num_local_sockets, 1) < st.num_remote_sockets

\* poll_events: reads_per_sock, the subtraction wrapping where it is not
\* checked
reads_per_sock(st, n) ==
    max(1, (n \div max(st.num_local_sockets, 1) - st.num_remote_sockets) % (usize_MAX + 1))

\* poll_events: "for _ in 0..reads_per_sock" on the local socket l, k reads
\* being left
RECURSIVE read_socket(_, _, _)
read_socket(pw, l, k) ==
    IF k = 0 THEN pw
    ELSE IF Len(pw.events) = pw.n THEN [pw EXCEPT !.full = TRUE]
    ELSE LET sock == pw.st.sockets[l + 1]
         IN  IF sock.pending = <<>> THEN pw
             ELSE LET m == Head(sock.pending)
                      st1 == [pw.st EXCEPT !.sockets[l + 1].pending = Tail(@)]
                  IN  IF m.kind = "err"
                      THEN read_socket([pw EXCEPT !.st = st1,
                                                  !.events = Append(@, ErrorEvent(l))],
                                       l, k - 1)
                      ELSE IF m.addr \in DOMAIN sock.remotes
                      THEN read_socket([pw EXCEPT !.st = st1,
                                                  !.events = Append(@,
                                                      ReadableEvent(l, sock.remotes[m.addr]))],
                                       l, k - 1)
                      ELSE LET r == reserve_socket(st1.remote_sockets, NoRemote)
                               remote_socket_id == r.idx + SOCK_INDEX_PIVOT
                               st2 == [st1 EXCEPT
                                          !.sockets[l + 1].remotes =
                                              map_insert(@, m.addr, remote_socket_id),
                                          !.remote_sockets =
                                              [r.tab EXCEPT ![r.idx + 1] = SomeRemote(l, m.addr)]]
                           IN  read_socket([pw EXCEPT !.st = st2,
                                                      !.events = Append(@,
                                                          AcceptEvent(l, m.addr, remote_socket_id))],
                                           l, k - 1)

\* poll_events: "for (local_socket_id, opt_socket_entry) in
\* self.sockets.iter_mut().enumerate()", from the local socket l on
RECURSIVE poll_sockets(_, _, _)
poll_sockets(pw, l, k) ==
    IF l = Len(pw.st.sockets) THEN pw
    ELSE IF ~pw.st.sockets[l + 1].some THEN poll_sockets(pw, l + 1, k)
    ELSE LET p == read_socket(pw, l, k)
         IN  IF p.full THEN p ELSE poll_sockets(p, l + 1, k)

\* poll_events: the loop over the remote sockets that are Some, from index i
RECURSIVE poll_writable(_, _)
poll_writable(pw, i) ==
    IF i = Len(pw.st.remote_sockets) THEN pw
    ELSE IF ~pw.st.remote_sockets[i + 1].some THEN poll_writable(pw, i + 1)
    ELSE IF Len(pw.events) = pw.n THEN [pw EXCEPT !.full = TRUE]
    ELSE poll_writable(
            [pw EXCEPT !.events = Append(@,
                WritableEvent(pw.st.remote_sockets[i + 1].local_socket_id,
                              SOCK_INDEX_PIVOT + i))],
            i + 1)

\* Sockets::poll_events on a buffer of n events; checks: the build checks
\* arithmetic overflow
poll_events(st, n, checks) ==
    IF reads_underflow(st, n) /\ checks
    THEN Panic(st)
    ELSE LET p1 == poll_sockets([st |-> st, events |-> <<>>, n |-> n, full |-> FALSE],
                                0, reads_per_sock(st, n))
             p2 == IF p1.full THEN p1 ELSE poll_writable(p1, 0)
         IN  Done(p2.st, p2.events \o [i \in 1 .. (n - Len(p2.events)) |-> NoEvent])

\* Sockets::send_non_blocking for a remote handle
send_non_blocking(st, remote_socket_id) ==
    LET idx == remote_socket_id - SOCK_INDEX_PIVOT
    IN  IF idx < 0 \/ idx >= Len(st.remote_sockets)
        THEN Panic(st)
        ELSE LET r == st.remote_sockets[idx + 1]
             IN  IF r.some /\ st.sockets[r.local_socket_id + 1].some
                 THEN Done(st, "Ok")
                 ELSE Failed(st, "InvalidInput")

NoSockCall == [op |-> "none", arg |-> EmptySocket, ok |-> TRUE, res |-> "none"]

\* Sockets::new; the build of the program checks arithmetic overflow or
\* does not
SocketsInit ==
    /\ sockets = <<>>
    /\ remote_sockets = <<>>
    /\ num_local_sockets = 0
    /\ num_remote_sockets = 0
    /\ overflow_checks \in BOOLEAN
    /\ handles = {}
    /\ panicked = FALSE
    /\ sock_ret = NoSockCall
    /\ sock_budget = [binds |-> 0, connects |-> 0, closes |-> 0, polls |-> 0, arrivals |-> 0]

\* the calls made and the arrivals so far
SockOps ==
    sock_budget.binds + sock_budget.connects + sock_budget.closes
        + sock_budget.polls + sock_budget.arrivals

\* the other parts stay parked
SocketsOnly == UNCHANGED <<vars, chan_vars, strm_vars, dtls_vars, seq_vars, drain_vars>>

\* the outcome r of a call becomes the state; a panic ends the program
SockReturns(op, arg, r) ==
    /\ sockets' = r.st.sockets
    /\ remote_sockets' = r.st.remote_sockets
    /\ num_local_sockets' = r.st.num_local_sockets
    /\ num_remote_sockets' = r.st.num_remote_sockets
    /\ panicked' = r.panic
    /\ sock_ret' = [op |-> op, arg |-> arg, ok |-> r.ok, res |-> r.res]
    /\ UNCHANGED overflow_checks

\* sockets.add(socket)
SockAdd ==
    /\ ~panicked
    /\ sock_budget.binds < MaxBinds /\ SockOps < MaxSockOps
    /\ LET r == bind(SocketsNow)
       IN  SockReturns("add", EmptySocket, r) /\ handles' = handles \cup {r.res}
    /\ sock_budget' = [sock_budget EXCEPT !.binds = @ + 1]
    /\ SocketsOnly

\* sockets.bind(address); UdpSocket::bind fails if not ok
SockBind(ok) ==
    /\ ~panicked
    /\ sock_budget.binds < MaxBinds /\ SockOps < MaxSockOps
    /\ LET r == IF ok THEN bind(SocketsNow) ELSE Failed(SocketsNow, "Err")
       IN  SockReturns("bind", EmptySocket, r)
           /\ handles' = IF ok THEN handles \cup {r.res} ELSE handles
    /\ sock_budget' = [sock_budget EXCEPT !.binds = @ + 1]
    /\ SocketsOnly

\* sockets.connect(h, a)
SockConnect(h, a) ==
    /\ ~panicked
    /\ h \in handles
    /\ sock_budget.connects < MaxSockConnects /\ SockOps < MaxSockOps
    /\ LET r == connect(SocketsNow, h, a)
       IN  SockReturns("connect", h, r)
           /\ handles' = IF r.ok THEN handles \cup {r.res} ELSE handles
    /\ sock_budget' = [sock_budget EXCEPT !.connects = @ + 1]
    /\ SocketsOnly

\* sockets.close(h)
SockClose(h) ==
    /\ ~panicked
    /\ h \in handles
    /\ sock_budget.closes < MaxCloses /\ SockOps < MaxSockOps
    /\ SockReturns("close", h, close(SocketsNow, h))
    /\ sock_budget' = [sock_budget EXCEPT !.closes = @ + 1]
    /\ UNCHANGED handles
    /\ SocketsOnly

\* sockets.send_non_blocking(h, buf)
SockSend(h) ==
    /\ ~panicked
    /\ h \in handles
    /\ SockReturns("send", h, send_non_blocking(SocketsNow, h))
    /\ UNCHANGED <<handles, sock_budget>>
    /\ SocketsOnly

\* sockets.poll_events(events) with a buffer of n events
PollEvents(n) ==
    /\ ~panicked
    /\ sock_budget.polls < MaxPolls /\ SockOps < MaxSockOps
    /\ LET r == poll_events(SocketsNow, n, overflow_checks)
       IN  /\ SockReturns("poll_events", n, r)
           /\ handles' = handles \cup
                 (IF r.panic THEN {}
                  ELSE { r.res[i].remote : i \in { j \in DOMAIN r.res : r.res[j].kind = "Accept" } })
    /\ sock_budget' = [sock_budget EXCEPT !.polls = @ + 1]
    /\ SocketsOnly

\* a datagram from address a, or an error, reaches the UDP socket of the
\* local socket l
Deliver(l, m) ==
    /\ ~panicked
    /\ l < Len(sockets) /\ sockets[l + 1].some
    /\ sock_budget.arrivals < MaxArrivals /\ SockOps < MaxSockOps
    /\ sockets' = [sockets EXCEPT ![l + 1].pending = Append(@, m)]
    /\ sock_budget' = [sock_budget EXCEPT !.arrivals = @ + 1]
    /\ sock_ret' = NoSockCall
    /\ UNCHANGED <<remote_sockets, num_local_sockets, num_remote_sockets,
                   overflow_checks, handles, panicked>>
    /\ SocketsOnly

Arrivals == { [kind |-> "dgram", addr |-> a] : a \in Addrs } \cup { [kind |-> "err", addr |-> 0] }

\* the handles that bind, add, connect and poll_events can give out
SocketIds ==
    (0 .. (MaxBinds - 1))
        \cup (SOCK_INDEX_PIVOT .. (SOCK_INDEX_PIVOT + MaxSockConnects + MaxArrivals - 1))

SocketsNext ==
    \/ SockAdd
    \/ \E ok \in BOOLEAN : SockBind(ok)
    \/ \E h \in SocketIds, a \in Addrs : SockConnect(h, a)
    \/ \E h \in SocketIds : SockClose(h)
    \/ \E h \in SocketIds : SockSend(h)
    \/ \E n \in 1 .. MaxEvents : PollEvents(n)
    \/ \E l \in 0 .. (MaxBinds - 1), m \in Arrivals : Deliver(l, m)

InitSockets == SocketsInit /\ RingParked /\ ChanParked /\ StreamsParked /\ DtlsParked /\ SeqParked /\ DrainParked

SpecSockets == InitSockets /\ [][SocketsNext]_<<sock_vars, vars, chan_vars, strm_vars, dtls_vars, seq_vars, drain_vars>>


(***************************************************************************)
(* Properties of the socket tables                                         *)
(***************************************************************************)

\* the handle h was given out and names no socket now: it has been closed,
\* itself or with its local socket
IsClosed(h) ==
    /\ h \in handles
    /\ IF h >= SOCK_INDEX_PIVOT
       THEN ~remote_sockets[h - SOCK_INDEX_PIVOT + 1].some
       ELSE ~sockets[h + 1].some

\* a step that is a call of close()
CloseStep == sock_ret'.op = "close"

\* C23: a call of close() on a handle, local or remote, that is already
\* closed returns normally and leaves both socket tables and the two
\* counts as they were.
C23_CloseIdempotent ==
    [][(CloseStep /\ IsClosed(sock_ret'.arg)) =>
          /\ ~panicked'
          /\ UNCHANGED <<sockets, remote_sockets, num_local_sockets, num_remote_sockets>>
      ]_sock_vars


\* close() on a closed remote handle is a no-op: the half of the property
\* above that holds
CloseRemoteAgain ==
    [][(CloseStep /\ IsClosed(sock_ret'.arg) /\ sock_ret'.arg >= SOCK_INDEX_PIVOT) =>
          /\ ~panicked'
          /\ UNCHANGED <<sockets, remote_sockets, num_local_sockets, num_remote_sockets>>
      ]_sock_vars


\* a remote socket is registered for the local socket l and the address a:
\* the table of remote sockets has an entry for the pair
InTable(l, a) ==
    \E i \in DOMAIN remote_sockets : remote_sockets[i] = SomeRemote(l, a)

\* the map remotes of the local socket l has an entry for the address a
InRemotes(l, a) == a \in DOMAIN sockets[l + 1].remotes

\* the remote handle h names the remote socket of (l, a), before the step
\* and after it
NamesBefore(h, l, a) ==
    /\ h >= SOCK_INDEX_PIVOT /\ h - SOCK_INDEX_PIVOT < Len(remote_sockets)
    /\ remote_sockets[h - SOCK_INDEX_PIVOT + 1] = SomeRemote(l, a)
NamesAfter(h, l, a) ==
    /\ h >= SOCK_INDEX_PIVOT /\ h - SOCK_INDEX_PIVOT < Len(remote_sockets')
    /\ remote_sockets'[h - SOCK_INDEX_PIVOT + 1] = SomeRemote(l, a)

\* a step that is a call of poll_events() that returns
PollStep == sock_ret'.op = "poll_events" /\ ~panicked'

\* the events the call of this step reports for what it read from the local
\* socket l, in order
ReadEvents(l) ==
    SelectSeq(sock_ret'.res,
              LAMBDA e : e.socket = l /\ e.kind \in {"Accept", "Readable", "Error"})

\* the call of this step reports what it reads from the local socket l as
\* follows, Registered(l, a) saying whether a remote socket is registered
\* for (l, a) when the call begins.  The events are one for each datagram or
\* error taken from the UDP socket, in order.  A datagram from a is reported
\* as Accept if and only if no remote socket is registered for (l, a) and no
\* earlier event of the call is an Accept for (l, a); the Accept carries a
\* and a handle that named no remote socket before, differs from the handle
\* of every other Accept of the call, and names the remote socket of (l, a)
\* afterwards.  Otherwise it is reported as Readable with a handle that
\* named the remote socket of (l, a) before or was given by the earlier
\* Accept.
Reports(l, Registered(_, _)) ==
    LET evs == ReadEvents(l)
        was == sockets[l + 1].pending
    IN  /\ Len(evs) <= Len(was)
        /\ sockets'[l + 1].pending = SubSeq(was, Len(evs) + 1, Len(was))
        /\ \A j \in DOMAIN evs :
              LET e == evs[j]
                  m == was[j]
                  earlier == { i \in 1 .. (j - 1) : evs[i].kind = "Accept" /\ evs[i].addr = m.addr }
              IN  IF m.kind = "err" THEN e.kind = "Error"
                  ELSE /\ e.kind \in {"Accept", "Readable"}
                       /\ e.kind = "Accept" <=> (~Registered(l, m.addr) /\ earlier = {})
                       /\ e.kind = "Accept" =>
                             /\ e.addr = m.addr
                             /\ \A a \in Addrs, k \in DOMAIN sockets : ~NamesBefore(e.remote, k - 1, a)
                             /\ NamesAfter(e.remote, l, m.addr)
                       /\ e.kind = "Readable" =>
                             \/ NamesBefore(e.remote, l, m.addr)
                             \/ \E i \in earlier : evs[i].remote = e.remote

\* the Accept events of the call of this step carry different handles
AcceptsDiffer ==
    \A i, j \in DOMAIN sock_ret'.res :
        (i /= j /\ sock_ret'.res[i].kind = "Accept" /\ sock_ret'.res[j].kind = "Accept") =>
            sock_ret'.res[i].remote /= sock_ret'.res[j].remote

\* the step closes the open remote handle of (l, a)
ClosesRemote(l, a) ==
    /\ CloseStep /\ ~panicked'
    /\ NamesBefore(sock_ret'.arg, l, a)
    /\ sockets[l + 1].some

\* C24: poll_events reports a datagram from address A on local socket L as
\* Accept(A, freshly minted remote handle) if and only if no remote socket is
\* registered for (L, A) at that moment, and otherwise as Readable(the
\* registered remote handle).  (That the next datagram from A after
\* close(remote handle) is reported as Accept again is part of
\* AcceptByRemotesMap below.)
C24_AcceptOrReadable ==
    [][PollStep =>
          /\ AcceptsDiffer
          /\ \A l \in 0 .. (Len(sockets) - 1) : sockets[l + 1].some => Reports(l, InTable)
      ]_sock_vars

\* what poll_events does do: the same with "registered" read as "the map
\* remotes of L has an entry for A", whatever the table of remote sockets
\* holds; and close(remote handle) removes the entry of the handle's
\* address from the map, so that the next datagram from that address is
\* reported as Accept
AcceptByRemotesMap ==
    [][/\ PollStep =>
             /\ AcceptsDiffer
             /\ \A l \in 0 .. (Len(sockets) - 1) : sockets[l + 1].some => Reports(l, InRemotes)
       /\ \A l \in 0 .. (Len(sockets) - 1), a \in Addrs :
             ClosesRemote(l, a) => ~InRemotes(l, a)'
      ]_sock_vars


(***************************************************************************)
(* Part 5: the DTLS streams of crates/rist-rs-transport-dtls-openssl/      *)
(* src/transport/stream/non_blocking/mod.rs: the store of handshake        *)
(* candidates behind DtlsStreamAcceptor and DtlsStreamConnector, and the   *)
(* shutdown of a DtlsStream.  The OpenSSL engine and the inner acceptor    *)
(* and connector are the environment: what they return is an input of the *)
(* call.  Time is counted in seconds.                                      *)
(***************************************************************************)

MaxStreams == 2           \* message streams handed to new_candidate
MaxNews == 2              \* message streams the inner acceptor returns in one call
MaxDtlsCalls == 3         \* calls of try_accept() / try_connect() / add()
MaxShutdowns == 2         \* calls of shutdown()
MaxTime == 15             \* SystemTime::now() is in 0 .. MaxTime,
TimeStep == 5             \* a multiple of TimeStep

\* run: "Duration::from_secs(10)"
HandshakeTimeout == 10

Times == { t \in 0 .. MaxTime : t % TimeStep = 0 }

\* what ssl.accept / ssl.connect can come to in try_new, Ssl::new and
\* set_mtu having failed in "LibraryError"
TryNewOutcomes == {"WouldBlock", "Ok", "Failure", "SetupFailure", "LibraryError"}

\* what MidHandshakeSslStream::handshake can come to
HandshakeOutcomes == {"Ok", "WouldBlock", "SetupFailure", "Failure"}

\* DtlsStreamCandidateStore::new, "candidates: None"
NoCandidates == [some |-> FALSE, list |-> <<>>]

\* the store the calls work on, with the fate of every message stream that
\* was handed to it
StoreNow == [candidates |-> candidates, fate |-> fate]

\* DtlsStreamCandidate::try_new: the candidate made of the message stream id
try_new(id, outcome) ==
    CASE outcome = "WouldBlock" -> [ok |-> TRUE, ready |-> FALSE, err |-> "none"]
      [] outcome = "Ok" -> [ok |-> TRUE, ready |-> TRUE, err |-> "none"]
      [] outcome = "Failure" -> [ok |-> FALSE, ready |-> FALSE, err |-> "Ssl"]
      [] outcome \in {"SetupFailure", "LibraryError"} ->
            [ok |-> FALSE, ready |-> FALSE, err |-> "Library"]

\* DtlsStreamCandidateStore::new_candidate at the time now; io is the
\* io::Error it returns, if any
new_candidate(st, now, outcome) ==
    LET id == Len(st.fate) + 1
        c == try_new(id, outcome)
    IN  IF c.ok
        THEN [st |-> [candidates |->
                         [some |-> TRUE,
                          list |-> Append(st.candidates.list,
                                          [id |-> id, created |-> now, ready |-> c.ready])],
                      fate |-> Append(st.fate, <<>>)],
              io |-> FALSE]
        ELSE [st |-> [st EXCEPT !.fate = Append(@, <<"refused">>)],
              io |-> c.err = "Io"]

\* DtlsStreamCandidate::try_handshake: a Ready candidate is the stream, a
\* Candidate takes a step of the handshake
try_handshake(c, outcome) == IF c.ready THEN "Ok" ELSE outcome

duration_apart(now, earlier) == IF now >= earlier THEN now - earlier ELSE earlier - now

\* run: "now.duration_since(candidate.1).unwrap_or_else(|_| Duration::from_secs(0))"
duration_since(now, earlier) == IF now >= earlier THEN now - earlier ELSE 0

\* run: the closure of filter_map, applied to the candidates of list in
\* order; hs gives what the handshake of each candidate comes to
RECURSIVE filter_map(_, _, _, _)
filter_map_until_failure(list, now, hs, acc) ==
    IF list = <<>> THEN acc
    ELSE LET c == Head(list)
         IN  IF duration_since(now, c.created) > HandshakeTimeout
             THEN filter_map(Tail(list), now, hs,
                             [acc EXCEPT !.fate[c.id] = Append(@, "timeout")])
             ELSE LET r == try_handshake(c, hs[c.id])
                      acc1 == [acc EXCEPT !.stepped = Append(@, c.id)]
                  IN  filter_map(IF r = "Failure" THEN <<>> ELSE Tail(list), now, hs,
                         CASE r = "Ok" ->
                                [acc1 EXCEPT !.output = Append(@, c.id),
                                             !.fate[c.id] = Append(@, "emitted")]
                           [] r = "WouldBlock" ->
                                [acc1 EXCEPT !.kept = Append(@, [c EXCEPT !.ready = FALSE])]
                           [] r = "SetupFailure" ->
                                [acc1 EXCEPT !.fate[c.id] = Append(@, "error")]
                           [] r = "Failure" ->
                                [acc1 EXCEPT !.fate[c.id] = Append(@, "failed")])

filter_map(list, now, hs, acc) ==
    IF list = <<>> THEN acc
    ELSE LET c == Head(list)
         IN  IF duration_since(now, c.created) > HandshakeTimeout
             THEN filter_map(Tail(list), now, hs,
                             [acc EXCEPT !.fate[c.id] = Append(@, "timeout")])
             ELSE LET r == try_handshake(c, hs[c.id])
                      acc1 == [acc EXCEPT !.stepped = Append(@, c.id)]
                  IN  filter_map(Tail(list), now, hs,
                         CASE r = "Ok" ->
                                [acc1 EXCEPT !.output = Append(@, c.id),
                                             !.fate[c.id] = Append(@, "emitted")]
                           [] r = "WouldBlock" ->
                                [acc1 EXCEPT !.kept = Append(@, [c EXCEPT !.ready = FALSE])]
                           [] r = "SetupFailure" ->
                                [acc1 EXCEPT !.fate[c.id] = Append(@, "error")]
                           [] r = "Failure" ->
                                [acc1 EXCEPT !.fate[c.id] = Append(@, "failed")])

\* DtlsStreamCandidateStore::run at the time now
store_run(st, now, hs) ==
    LET acc == IF st.candidates.some
               THEN filter_map(st.candidates.list, now, hs,
                               [kept |-> <<>>, output |-> <<>>, stepped |-> <<>>,
                                fate |-> st.fate])
               ELSE [kept |-> <<>>, output |-> <<>>, stepped |-> <<>>, fate |-> st.fate]
    IN  [st |-> [candidates |-> [st.candidates EXCEPT !.list = acc.kept], fate |-> acc.fate],
         err |-> "none", ran |-> TRUE, stepped |-> acc.stepped, output |-> acc.output]

\* a call that returns the error err without running the store
Broken(st, err) ==
    [st |-> st, err |-> err, ran |-> FALSE, stepped |-> <<>>, output |-> <<>>]

\* try_accept: the loop over self.acceptor.accept(); news gives, for each
\* message stream accept() returns, "ContextError" if context() fails and
\* else what try_new comes to; accept() then returns an error if
\* ending = "err" and None otherwise
RECURSIVE accept_loop(_, _, _, _)
accept_loop(st, now, news, ending) ==
    IF news = <<>>
    THEN [st |-> st, err |-> IF ending = "err" THEN "Accept" ELSE "none"]
    ELSE IF Head(news) = "ContextError"
         THEN [st |-> st, err |-> "Context"]
         ELSE LET r == new_candidate(st, now, Head(news))
              IN  IF r.io THEN [st |-> r.st, err |-> "Io"]
                  ELSE accept_loop(r.st, now, Tail(news), ending)

\* DtlsStreamAcceptor::try_accept
try_accept(st, now, news, ending, hs) ==
    LET r == accept_loop(st, now, news, ending)
    IN  IF r.err /= "none" THEN Broken(r.st, r.err) ELSE store_run(r.st, now, hs)

\* DtlsStreamConnector::add; context is "ContextError" if context() fails
\* and else what try_new comes to
add(st, now, context) ==
    IF context = "ContextError"
    THEN Broken(st, "Context")
    ELSE LET r == new_candidate(st, now, context)
         IN  Broken(r.st, IF r.io THEN "Io" ELSE "none")

\* DtlsStreamConnector::try_connect; connector.run() returns an error if
\* ending = "err"
try_connect(st, now, ending, hs) ==
    IF ending = "err" THEN Broken(st, "Connect") ELSE store_run(st, now, hs)

shutdown_state_intersects(flags) ==
    IF flags \cap {"RECEIVED", "SENT"} /= {} THEN "Shutdown" ELSE "Active"

\* DtlsStream::shutdown_state, from the flags of SslRef::get_shutdown
shutdown_state(flags) ==
    IF {"RECEIVED", "SENT"} \subseteq flags THEN "Shutdown"
    ELSE IF flags \cap {"RECEIVED", "SENT"} /= {} THEN "ShuttingDown"
    ELSE "Active"

\* SslStream::shutdown: the result of SSL_shutdown and the flags after it;
\* the engine sets the flags in more and never clears one
ssl_shutdown(flags, result, more) ==
    [result |-> result,
     flags |-> flags \cup more \cup
                  (CASE result = "Sent" -> {"SENT"}
                     [] result = "Received" -> {"SENT", "RECEIVED"}
                     [] OTHER -> {})]

\* what SSL_shutdown can return: the two results, WANT_READ or WANT_WRITE,
\* and any other error
ShutdownResults == {"Sent", "Received", "Want", "Error"}

\* DtlsStream::shutdown
shutdown(flags, result, more) ==
    IF shutdown_state(flags) \in {"Active", "ShuttingDown"}
    THEN LET e == ssl_shutdown(flags, result, more)
         IN  [flags |-> e.flags, engine |-> 1,
              ret |-> CASE e.result \in {"Sent", "Received"} ->
                             IF shutdown_state(e.flags) = "Shutdown" THEN "Ok" ELSE "None"
                        [] e.result = "Error" -> "Err"
                        [] e.result = "Want" -> "None"]
    ELSE [flags |-> flags, engine |-> 0, ret |-> "Ok"]

NoDtlsCall ==
    [op |-> "none", err |-> "none", ran |-> FALSE, stepped |-> <<>>, output |-> <<>>,
     stream |-> 0, engine |-> 0, ret |-> "none"]

\* DtlsStreamAcceptor::new or DtlsStreamConnector::new, with
\* DtlsStreamCandidateStore::new; the clock shows any time
DtlsInit ==
    /\ dtls_role \in {"acceptor", "connector"}
    /\ clock \in Times
    /\ candidates = NoCandidates
    /\ fate = <<>>
    /\ ssl = <<>>
    /\ dtls_ret = NoDtlsCall
    /\ dtls_budget = [calls |-> 0, shutdowns |-> 0]

\* the other parts stay parked
DtlsOnly == UNCHANGED <<vars, chan_vars, strm_vars, sock_vars, seq_vars, drain_vars>>

\* the result r of try_accept / add / try_connect becomes the state; the
\* streams of its output are with the caller, their engines not shut down
DtlsReturns(op, r) ==
    /\ candidates' = r.st.candidates
    /\ fate' = r.st.fate
    /\ ssl' = [s \in DOMAIN ssl \cup { r.output[i] : i \in DOMAIN r.output } |->
                  IF s \in DOMAIN ssl THEN ssl[s] ELSE {}]
    /\ dtls_ret' = [NoDtlsCall EXCEPT !.op = op, !.err = r.err, !.ran = r.ran,
                                      !.stepped = r.stepped, !.output = r.output]
    /\ dtls_budget' = [dtls_budget EXCEPT !.calls = @ + 1]
    /\ UNCHANGED <<dtls_role, clock>>

\* the system clock moves to t, forwards or backwards
ClockMoves(t) ==
    /\ t /= clock
    /\ clock' = t
    /\ dtls_ret' = NoDtlsCall
    /\ UNCHANGED <<dtls_role, candidates, fate, ssl, dtls_budget>>
    /\ DtlsOnly

\* what the inner acceptor and the context provider can bring in one call
RECURSIVE SeqsUpTo(_, _)
SeqsUpTo(S, n) ==
    IF n = 0 THEN {<<>>}
    ELSE SeqsUpTo(S, n - 1) \cup { Append(q, x) : q \in SeqsUpTo(S, n - 1), x \in S }

News(n) == SeqsUpTo(TryNewOutcomes \cup {"ContextError"}, IF n < MaxNews THEN n ELSE MaxNews)

StreamNames == 1 .. MaxStreams

\* what the handshakes can come to for the candidates a call can step: those
\* of the store and the n new ones, if the call runs the store
Handshakes(n, runs) ==
    LET ids == IF runs
               THEN (Len(fate) + 1 .. Len(fate) + n) \cup
                    { candidates.list[i].id : i \in DOMAIN candidates.list }
               ELSE {}
    IN  { [s \in StreamNames |-> IF s \in ids THEN f[s] ELSE "WouldBlock"] :
            f \in [ids -> HandshakeOutcomes] }

\* acceptor.try_accept()
TryAccept(ending) ==
    /\ dtls_role = "acceptor"
    /\ dtls_budget.calls < MaxDtlsCalls
    /\ \E news \in News(MaxStreams - Len(fate)) :
          \E hs \in Handshakes(Len(news), ending = "none") :
             DtlsReturns("try_accept", try_accept(StoreNow, clock, news, ending, hs))
    /\ DtlsOnly

\* connector.add(address)
DtlsAdd(context) ==
    /\ dtls_role = "connector"
    /\ dtls_budget.calls < MaxDtlsCalls
    /\ Len(fate) < MaxStreams
    /\ DtlsReturns("add", add(StoreNow, clock, context))
    /\ DtlsOnly

\* connector.try_connect()
TryConnect(ending) ==
    /\ dtls_role = "connector"
    /\ dtls_budget.calls < MaxDtlsCalls
    /\ \E hs \in Handshakes(0, ending = "none") :
          DtlsReturns("try_connect", try_connect(StoreNow, clock, ending, hs))
    /\ DtlsOnly

\* stream.shutdown() on the stream s the caller was given
Shutdown(s, result, more) ==
    /\ s \in DOMAIN ssl
    /\ dtls_budget.shutdowns < MaxShutdowns
    /\ LET r == shutdown(ssl[s], result, more)
       IN  /\ ssl' = [ssl EXCEPT ![s] = r.flags]
           /\ dtls_ret' = [NoDtlsCall EXCEPT !.op = "shutdown", !.stream = s,
                                             !.engine = r.engine, !.ret = r.ret]
    /\ dtls_budget' = [dtls_budget EXCEPT !.shutdowns = @ + 1]
    /\ UNCHANGED <<dtls_role, clock, candidates, fate>>
    /\ DtlsOnly

\* the close-notify of the peer of the stream s is read by try_recv
PeerCloseNotify(s) ==
    /\ s \in DOMAIN ssl
    /\ "RECEIVED" \notin ssl[s]
    /\ ssl' = [ssl EXCEPT ![s] = @ \cup {"RECEIVED"}]
    /\ dtls_ret' = NoDtlsCall
    /\ UNCHANGED <<dtls_role, clock, candidates, fate, dtls_budget>>
    /\ DtlsOnly

DtlsNext ==
    \/ \E t \in Times : ClockMoves(t)
    \/ \E ending \in {"none", "err"} : TryAccept(ending)
    \/ \E context \in TryNewOutcomes \cup {"ContextError"} : DtlsAdd(context)
    \/ \E ending \in {"none", "err"} : TryConnect(ending)
    \/ \E s \in StreamNames, result \in ShutdownResults, more \in SUBSET {"SENT", "RECEIVED"} :
          Shutdown(s, result, more)
    \/ \E s \in StreamNames : PeerCloseNotify(s)

InitDtls ==
    DtlsInit /\ RingParked /\ ChanParked /\ StreamsParked /\ SocketsParked /\ SeqParked /\ DrainParked

SpecDtls ==
    InitDtls /\ [][DtlsNext]_<<dtls_vars, vars, chan_vars, strm_vars, sock_vars, seq_vars, drain_vars>>

----------------------------------------------------------------------------
\* The candidate store and the shutdown of a stream

Count(q, x) == Cardinality({ i \in DOMAIN q : q[i] = x })

InStore(list, id) == \E i \in DOMAIN list : list[i].id = id

\* a step that is a tick of the candidate store
StoreTick == dtls_ret'.ran

\* the candidates the tick finds in the store: those of the store before the
\* call and those the call itself stored, created at the time of the call
StoreBefore ==
    { [id |-> candidates.list[i].id, created |-> candidates.list[i].created] :
        i \in DOMAIN candidates.list }
    \cup { [id |-> id, created |-> clock] :
             id \in { n \in Len(fate) + 1 .. Len(fate') : fate'[n] /= <<"refused">> } }

\* now minus the creation time, a clock that went backwards counting as 0
Age(c) == IF clock >= c.created THEN clock - c.created ELSE 0

\* C25: on every tick of the candidate store a candidate older than 10 s is
\* removed without a handshake step and is not emitted; every younger one
\* takes exactly one handshake step and, if its handshake is still in
\* progress, stays in the store with the creation time it had.
C25_HandshakeTimeout ==
    [][StoreTick =>
         \A c \in StoreBefore :
            IF Age(c) > 10
            THEN /\ Count(dtls_ret'.stepped, c.id) = 0
                 /\ Count(dtls_ret'.output, c.id) = 0
                 /\ ~InStore(candidates'.list, c.id)
                 /\ fate'[c.id] = <<"timeout">>
            ELSE /\ Count(dtls_ret'.stepped, c.id) = 1
                 /\ "timeout" \notin { fate'[c.id][i] : i \in DOMAIN fate'[c.id] }
                 /\ fate'[c.id] = <<>> =>
                       \E i \in DOMAIN candidates'.list :
                          /\ candidates'.list[i].id = c.id
                          /\ candidates'.list[i].created = c.created]_dtls_vars

\* a tick has removed a candidate for its age and stepped a younger one that
\* stays in the store with an earlier creation time
C25_Witness ==
    /\ dtls_ret.ran
    /\ \E a, b \in DOMAIN fate :
          /\ fate[a] = <<"timeout">>
          /\ Count(dtls_ret.stepped, a) = 0
          /\ Count(dtls_ret.stepped, b) = 1
          /\ \E i \in DOMAIN candidates.list :
                candidates.list[i].id = b /\ candidates.list[i].created < clock

\* a tick with a clock that went backwards steps the candidate
C25_WitnessBackwards ==
    /\ dtls_ret.ran
    /\ \E i \in DOMAIN candidates.list :
          /\ candidates.list[i].created > clock
          /\ Count(dtls_ret.stepped, candidates.list[i].id) = 1

\* the candidates that have left the store by the outcome o in this step
Leaves(o) == { id \in DOMAIN fate' : fate'[id] = <<o>> /\ (id \notin DOMAIN fate \/ fate[id] = <<>>) }

\* C26: each candidate leaves the store once and by one outcome, emitted to
\* the caller exactly once or discarded on timeout, setup error or handshake
\* failure; a handshake failure or setup error is no error of try_accept() /
\* try_connect() and leaves the other candidates in the store.
C26_CandidateOutcomes ==
    /\ [](\A id \in DOMAIN fate :
            /\ Len(fate[id]) <= 1
            /\ fate[id] = <<>> <=> InStore(candidates.list, id)
            /\ Count([i \in DOMAIN candidates.list |-> candidates.list[i].id], id) <= 1)
    /\ [][/\ \A id \in DOMAIN fate : fate[id] /= <<>> => fate'[id] = fate[id]
          /\ \A id \in DOMAIN fate' :
                Count(dtls_ret'.output, id) =
                   IF id \in Leaves("emitted") THEN 1 ELSE 0
          /\ dtls_ret'.err \notin {"Io", "Ssl", "Library"}
          /\ Leaves("error") \cup Leaves("failed") /= {} =>
                /\ dtls_ret'.err = "none"
                /\ \A c \in StoreBefore :
                      fate'[c.id] = <<>> => InStore(candidates'.list, c.id)]_dtls_vars

\* a tick in which one candidate failed its handshake while another stayed
\* in the store and a third stream had been emitted before
C26_Witness ==
    /\ dtls_ret.op \in {"try_accept", "try_connect"}
    /\ dtls_ret.err = "none"
    /\ \E a, b \in DOMAIN fate :
          /\ fate[a] \in {<<"failed">>, <<"error">>}
          /\ Count(dtls_ret.stepped, a) = 1
          /\ a < b
          /\ InStore(candidates.list, b)
          /\ Count(dtls_ret.stepped, b) = 1

\* a candidate has been emitted to the caller
C26_WitnessEmitted ==
    /\ dtls_ret.ran
    /\ \E a \in DOMAIN fate : fate[a] = <<"emitted">> /\ Count(dtls_ret.output, a) = 1

\* a step that is a call of shutdown() on the stream s
ShutdownStep(s) == dtls_ret'.op = "shutdown" /\ dtls_ret'.stream = s

\* close-notify both sent and received
BothWays(flags) == "SENT" \in flags /\ "RECEIVED" \in flags

\* C27: shutdown() returns Some(Ok(())) only when close-notify is both sent
\* and received; before that it takes one engine step and returns nothing
\* unless the step completes the shutdown or fails; once both are there,
\* every call returns Some(Ok(())) without the engine.
C27_NonBlockingShutdown ==
    [][\A s \in DOMAIN ssl :
         ShutdownStep(s) =>
            /\ dtls_ret'.ret = "Ok" => BothWays(ssl'[s])
            /\ ~BothWays(ssl[s]) =>
                  /\ dtls_ret'.engine = 1
                  /\ dtls_ret'.ret \in {"None", "Ok", "Err"}
                  /\ dtls_ret'.ret = "Ok" => BothWays(ssl'[s])
                  /\ (~BothWays(ssl'[s]) /\ dtls_ret'.ret /= "Err") => dtls_ret'.ret = "None"
            /\ BothWays(ssl[s]) =>
                  /\ dtls_ret'.ret = "Ok"
                  /\ dtls_ret'.engine = 0
                  /\ ssl'[s] = ssl[s]]_dtls_vars

\* a call of shutdown() on a stream that is shut down: Some(Ok(())) without
\* the engine
C27_Witness ==
    /\ dtls_ret.op = "shutdown"
    /\ dtls_ret.ret = "Ok"
    /\ dtls_ret.engine = 0
    /\ BothWays(ssl[dtls_ret.stream])

\* a call of shutdown() whose engine step sent the close-notify and returns
\* nothing
C27_WitnessPending ==
    /\ dtls_ret.op = "shutdown"
    /\ dtls_ret.ret = "None"
    /\ dtls_ret.engine = 1
    /\ ssl[dtls_ret.stream] = {"SENT"}

----------------------------------------------------------------------------
(***************************************************************************)
(* Part 6: is_seq_reset and is_expired called on their own                 *)
(***************************************************************************)

\* the rings probed have 1 .. MaxProbeLen cells, Capacity cells, or the most
\* cells with 2 * len <= S::max_value()
MaxProbeLen == 3

Lens == (1 .. MaxProbeLen) \cup {Capacity, (max_value \div 2) - 1, max_value \div 2}

is_seq_reset_of_forward(nlen, last, current) ==
    LET diff == wrapping_sub(current, last)
    IN  diff > nlen /\ diff <= (max_value \div 2)

\* is_seq_reset of a ring whose self.data.len() is nlen
is_seq_reset_of(nlen, last, current) ==
    LET diff == IF current < last THEN last - current ELSE current - last
    IN  diff > nlen /\ diff <= (max_value - nlen)

\* a call of is_seq_reset(a, b) on a ring of nlen cells, or of
\* is_expired(a, packet with sequence number b), is about to be made
SeqInit ==
    probe \in [fn : {"none"}, nlen : Lens, a : SeqNums, b : SeqNums, ret : {FALSE}]

\* the other parts stay parked
SeqOnly == UNCHANGED <<vars, chan_vars, strm_vars, sock_vars, dtls_vars, drain_vars>>

\* self.is_seq_reset(a, b)
IsSeqReset ==
    /\ probe.fn = "none"
    /\ probe' = [probe EXCEPT !.fn = "is_seq_reset",
                              !.ret = is_seq_reset_of(probe.nlen, probe.a, probe.b)]
    /\ SeqOnly

\* Self::is_expired(a, &packet), the packet's sequence number being b
IsExpired ==
    /\ probe.fn = "none"
    /\ probe' = [probe EXCEPT !.fn = "is_expired", !.ret = is_expired(probe.a, probe.b)]
    /\ SeqOnly

SeqNext == IsSeqReset \/ IsExpired

InitSeq ==
    /\ SeqInit /\ RingParked /\ ChanParked /\ StreamsParked /\ SocketsParked
    /\ DtlsParked /\ DrainParked

SpecSeq ==
    InitSeq /\ [][SeqNext]_<<seq_vars, vars, chan_vars, strm_vars, sock_vars, dtls_vars,
                          drain_vars>>

\* C28: for every pair (last, current) and every capacity c with
\* 2c <= MAX, is_seq_reset is true exactly when the forward wrapping
\* distance from last to current exceeds c and is at most MAX - c; distance
\* c does not reset, distance c + 1 does.
C28_SeqResetDefinition ==
    probe.fn = "is_seq_reset" =>
       LET d == forward_distance(probe.a, probe.b)
           c == probe.nlen
       IN  /\ 2 * c <= max_value
           /\ probe.ret <=> (d > c /\ d <= max_value - c)
           /\ d = c => ~probe.ret
           /\ d = c + 1 => probe.ret
           /\ c = Capacity => (probe.ret <=> is_seq_reset(probe.a, probe.b))

\* is_seq_reset is true of a pair that wraps, current being below last and
\* c + 1 ahead of it
C28_Witness ==
    /\ probe.fn = "is_seq_reset"
    /\ probe.ret
    /\ probe.b < probe.a
    /\ forward_distance(probe.a, probe.b) = probe.nlen + 1

\* is_seq_reset is false at distance c with the largest capacity
C28_WitnessLargest ==
    /\ probe.fn = "is_seq_reset"
    /\ ~probe.ret
    /\ probe.nlen = max_value \div 2
    /\ forward_distance(probe.a, probe.b) = probe.nlen

\* C29: for every read_seq and packet sequence number, is_expired is true
\* exactly when the two differ and the forward wrapping distance from
\* read_seq to the packet's sequence number is greater than MAX/2.
C29_ExpiredDefinition ==
    probe.fn = "is_expired" =>
       (probe.ret <=> (/\ probe.a /= probe.b
                       /\ forward_distance(probe.a, probe.b) > max_value \div 2))

\* is_expired and the definition part only where the packet's sequence
\* number is below read_seq by MAX/2 or MAX/2 + 1: is_expired is false
\* there, and the forward distance is MAX/2 + 2 or MAX/2 + 1
ExpiredButBehindByHalf ==
    probe.fn = "is_expired" =>
       LET d == forward_distance(probe.a, probe.b)
           pivot == max_value \div 2
       IN  IF probe.b < probe.a /\ probe.a - probe.b \in {pivot, pivot + 1}
           THEN ~probe.ret /\ d \in {pivot + 1, pivot + 2}
           ELSE probe.ret <=> (probe.a /= probe.b /\ d > pivot)

\* the same forward distance, MAX/2 + 1, is expired from read_seq 0
ExpiredAheadByHalf ==
    /\ probe.fn = "is_expired"
    /\ probe.a = 0
    /\ probe.b = (max_value \div 2) + 1
    /\ probe.ret

----------------------------------------------------------------------------
\* C30: with no reset pending and no held packet of sequence read_seq,
\* next_event returns Missing if len() + 2 >= capacity, len() taken after the
\* scan has removed expired packets and moved the read head, and NeedMore
\* otherwise; NeedMore leaves read_seq and the delivered, lost, reordered and
\* rejected counters as they were.
C30_MissingOrNeedMore ==
    [][(Called("next_event") /\ ~reset_flag /\ read_seq \notin Held) =>
          LET scanned == try_pop(Self).self
          IN  /\ LastCall.ret = IF len(scanned) + 2 >= Capacity
                                THEN "Missing" ELSE "NeedMore"
              /\ LastCall.ret = "NeedMore" =>
                    /\ read_seq' = read_seq
                    /\ metrics'.delivered = metrics.delivered
                    /\ metrics'.lost = metrics.lost
                    /\ metrics'.reordered = metrics.reordered
                    /\ metrics'.rejected = metrics.rejected]_vars

\* next_event has returned NeedMore on a ring that had held a packet and
\* dropped one in a scan, and Missing before that
C30_Witness ==
    /\ log /= <<>>
    /\ log[Len(log)].op = "next_event"
    /\ log[Len(log)].ret = "NeedMore"
    /\ metrics.dropped > 0
    /\ \E i \in Calls : log[i].op = "next_event" /\ log[i].ret = "Missing"

----------------------------------------------------------------------------
IsNextEvent(i) == log[i].op = "next_event"

IsResetEvent(i) == IsNextEvent(i) /\ log[i].ret = "Reset"

\* j is the first next_event call after call i
FirstNextEventAfter(i, j) ==
    /\ i < j
    /\ IsNextEvent(j)
    /\ \A k \in Calls : (i < k /\ k < j) => ~IsNextEvent(k)

\* C31: after a put resets the ring, the first next_event call after it
\* returns Reset and clears the flag, and no later next_event returns Reset
\* unless a put has reset the ring again; next_event returns Reset only if a
\* put reset the ring since the previous Reset event.
C31_ResetObservedOnce ==
    /\ [](\A i, j \in Calls :
            /\ (IsResetPut(i) /\ FirstNextEventAfter(i, j)) => IsResetEvent(j)
            /\ (IsResetEvent(i) /\ IsResetEvent(j) /\ i < j) =>
                  \E k \in Calls : i < k /\ k < j /\ IsResetPut(k)
            /\ IsResetEvent(j) => \E k \in Calls : k < j /\ IsResetPut(k))
    /\ [][Called("next_event") =>
             /\ ~reset_flag'
             /\ LastCall.ret = "Reset" <=> reset_flag]_vars

\* a put reset the ring, the next next_event returned Reset and the one
\* after it did not
C31_Witness ==
    \E i, j, k \in Calls :
       /\ IsResetPut(i)
       /\ FirstNextEventAfter(i, j)
       /\ IsResetEvent(j)
       /\ FirstNextEventAfter(j, k)
       /\ ~IsResetEvent(k)

----------------------------------------------------------------------------
\* a next_event call made directly after a next_event call that returned
\* Missing
AfterMissing ==
    /\ Called("next_event")
    /\ log /= <<>>
    /\ IsNextEvent(Len(log))
    /\ log[Len(log)].ret = "Missing"

C32_WitnessTwice ==
    \E i \in Calls :
       /\ i > 1
       /\ IsNextEvent(i - 1) /\ log[i - 1].ret = "Missing"
       /\ IsNextEvent(i) /\ log[i].ret = "Missing"

----------------------------------------------------------------------------
ReturnedPacket == Called("next_event") /\ LastCall.ret = "Packet"

\* the slot the call took the packet of sequence number s from
TakenFrom(c, s) == data[c] = s /\ data'[c] = None

\* C33: a next_event that returns Packet(p) has p.seq = read_seq as it was
\* before the call, adds one to delivered and advances read_seq by one
\* (wrapping); it adds one to reordered exactly when the slot the packet was
\* found in is not the slot of the read head, and nothing otherwise.
C33_PacketAccounting ==
    [][ReturnedPacket =>
          /\ LastCall.seq = read_seq
          /\ metrics'.delivered = metrics.delivered + 1
          /\ read_seq' = (read_seq + 1) % (2 ^ SeqBits)
          /\ \E c \in Positions :
                /\ TakenFrom(c, read_seq)
                /\ metrics'.reordered =
                      metrics.reordered + (IF c /= read_pos' THEN 1 ELSE 0)]_vars

\* the read head taken as it was before the call: the scan moves it over
\* empty slots before the packet is found
C33_HeadBeforeCall ==
    [][ReturnedPacket =>
          \E c \in Positions :
             /\ TakenFrom(c, read_seq)
             /\ metrics'.reordered =
                   metrics.reordered + (IF c /= read_pos THEN 1 ELSE 0)]_vars

\* next_event has returned its first packet, found behind another one that
\* is still held at the read head
C33_Witness ==
    /\ log /= <<>>
    /\ IsNextEvent(Len(log)) /\ log[Len(log)].ret = "Packet"
    /\ metrics.reordered = 1
    /\ metrics.delivered = 1
    /\ data[read_pos] /= None

----------------------------------------------------------------------------
(***************************************************************************)
(* A reader that drains the ring                                           *)
(***************************************************************************)

\* calls made on the ring before the reader starts to drain it
MaxDrainOps == 2

\* the reader has not started to drain the ring
BeforeDrain == drain = "idle" /\ Len(log) < MaxDrainOps

\* next_event called by the draining reader
Drain ==
    LET r == next_event(Self)
    IN  /\ metrics' = r.self.metrics
        /\ data' = r.self.data
        /\ write_pos' = r.self.write_pos
        /\ read_pos' = r.self.read_pos
        /\ read_seq' = r.self.read_seq
        /\ write_seq' = r.self.write_seq
        /\ reset_flag' = r.self.reset_flag
        /\ drain' = r.ev
        /\ UNCHANGED <<log, chan_vars, strm_vars, sock_vars, dtls_vars, seq_vars>>

DrainNext ==
    \/ \E s \in PutSeqs : BeforeDrain /\ Put(s)
    \/ BeforeDrain /\ NextEvent
    \/ BeforeDrain /\ SkipToNext
    \/ Drain

all_vars == <<vars, chan_vars, strm_vars, sock_vars, dtls_vars, seq_vars, drain_vars>>

\* the reader keeps calling next_event
SpecDrain == Init /\ [][DrainNext]_all_vars /\ WF_all_vars(Drain)

\* C34: with no further puts, repeated next_event calls on a ring of three
\* or more slots do not return Missing forever: again and again the result
\* is Packet or NeedMore.
C34_NoEndlessMissing ==
    /\ Capacity >= 3
    /\ []<>(drain \in {"Packet", "NeedMore"})

\* the draining reader has been told Missing twice and the packet it waits
\* for is in the ring
C34_Witness ==
    /\ drain = "Missing"
    /\ metrics.lost >= 2
    /\ Held /= {}

----------------------------------------------------------------------------
\* slot i lies in the window from the read head (inclusive) to the write
\* head (exclusive)
InWindow(i) ==
    IF write_pos >= read_pos
    THEN read_pos <= i /\ i < write_pos
    ELSE i >= read_pos \/ i < write_pos

\* C37: every slot outside the window from the read head to the write head
\* is empty; the ring holds no packet when the two heads are equal; a put
\* that stores its packet writes it to a slot that was empty, or that the
\* reset of the same call had emptied.
C37_WindowInvariant ==
    /\ [](/\ \A i \in Positions : ~InWindow(i) => data[i] = None
          /\ read_pos = write_pos => Held = {})
    /\ [][(Called("put") /\ LastCall.ret = "None") =>
             \E i \in Positions :
                /\ data'[i] = LastCall.seq
                /\ write_pos' = advance(i)
                /\ i = IF LastCall.reset THEN 0 ELSE write_pos
                /\ LastCall.reset \/ data[i] = None]_vars

\* the window wraps around the end of the ring, holds a packet, and a slot
\* of the window has been emptied by the reader
C37_Witness ==
    /\ write_pos < read_pos
    /\ Held /= {}
    /\ \E i \in Positions : InWindow(i) /\ data[i] = None
    /\ metrics.delivered > 0

----------------------------------------------------------------------------
\* a put that handed its packet back because the backlog was full: the
\* packet was not expired and len() was Capacity - 1
ReturnedForFull ==
    /\ Called("put") /\ LastCall.ret = "Some"
    /\ ~is_expired(read_seq, LastCall.seq)
    /\ len(Self) = Capacity - 1

\* C38: a put returned because the backlog is full changes no slot, neither
\* head, not read_seq, not the reset flag and no counter; it sets write_seq
\* to the sequence number of the packet it handed back.
C38_FullPutFrame ==
    [][ReturnedForFull =>
          /\ data' = data
          /\ read_pos' = read_pos /\ write_pos' = write_pos
          /\ read_seq' = read_seq
          /\ reset_flag' = reset_flag
          /\ metrics' = metrics
          /\ write_seq' = LastCall.seq]_vars

\* every put that hands a packet back does so for expiry or for a full
\* backlog, and not in a call that reset the ring
ReturnedForExpiryOrFull ==
    [][(Called("put") /\ LastCall.ret = "Some") =>
          /\ ~LastCall.reset
          /\ is_expired(read_seq, LastCall.seq) \/ len(Self) = Capacity - 1]_vars

\* a put was handed back by a full ring, and write_seq names a packet the
\* ring does not hold
C38_Witness ==
    /\ log /= <<>>
    /\ log[Len(log)].op = "put" /\ log[Len(log)].ret = "Some"
    /\ ~log[Len(log)].expired /\ ~log[Len(log)].reset
    /\ len(Self) = Capacity - 1
    /\ write_seq = log[Len(log)].seq
    /\ write_seq \notin Held
    /\ Occupied = Capacity - 1


\* ---------------------------------------------------------------------------
\* Progress of try_send and try_recv under scheduling of the other thread
\* ---------------------------------------------------------------------------

\* the steps the sending thread takes inside a call of try_send
SendSteps ==
    \/ start_send_load_stamp
    \/ start_send_cas
    \/ start_send_load_head
    \/ start_send_load_tail
    \/ write_msg
    \/ write_stamp

\* the steps the receiving thread takes inside a call of try_recv
RecvSteps ==
    \/ start_recv_load_stamp
    \/ start_recv_cas
    \/ start_recv_load_tail
    \/ start_recv_load_head
    \/ read_msg
    \/ read_stamp

\* the thread is inside a call
InSend == snd.pc \notin {"idle", "dropped"}
InRecv == rcv.pc \notin {"idle", "dropped"}

\* C35 (as stated): with one sender and one receiver, a try_send that began
\* on a queue that was not full, and a try_recv that began on a queue that
\* was not empty, finishes within a bounded number of rounds of its loop
\* however the other thread is scheduled: it never begins round MaxRounds.
\* Calls in which a weak compare-exchange failed on the expected value are
\* left out, so that a violation is due to the other thread alone.
C35_WaitFree ==
    /\ (InSend /\ snd.ready /\ ~snd.weak) => snd.rounds < MaxRounds
    /\ (InRecv /\ rcv.ready /\ ~rcv.weak) => rcv.rounds < MaxRounds

\* the same as a property of behaviours: if the calling thread keeps taking
\* steps (nothing is assumed of the other thread), such a call returns
C35_ReturnsIfCallerRuns ==
    /\ WF_all_vars(SendSteps) => ((InSend /\ snd.ready) ~> ~InSend)
    /\ WF_all_vars(RecvSteps) => ((InRecv /\ rcv.ready) ~> ~InRecv)

\* C35 (amended): a try_send that began on a queue that was not full while
\* the receiver was not inside the slot at the tail, and a try_recv that
\* began on a queue that was not empty while the sender was not inside the
\* slot at the head, never begins a second round of its loop unless one of
\* its weak compare-exchanges has failed on the expected value: the call
\* returns within one round whatever the other thread does meanwhile.
C35_OneRoundUnlessHeld ==
    /\ (InSend /\ snd.ready /\ ~snd.held /\ ~snd.weak) => snd.rounds <= 1
    /\ (InRecv /\ rcv.ready /\ ~rcv.held /\ ~rcv.weak) => rcv.rounds <= 1

\* a send is about to return Ok after one round while the receiver is in the
\* middle of releasing another slot
C35_Witness ==
    /\ snd.pc = "write_stamp"
    /\ snd.ready /\ ~snd.held /\ ~snd.weak
    /\ snd.rounds = 1
    /\ rcv.pc \in {"read_msg", "read_stamp"}

\* a send on a queue that is not full goes round and round while the
\* receiver sits between moving the head and releasing the slot
C35_WitnessSpinning ==
    /\ snd.ready /\ snd.held /\ ~snd.weak
    /\ snd.rounds = MaxRounds
    /\ receiver_holds(index_of(snd.pos))

\* a receive on a queue that is not empty goes round and round while the
\* sender sits between moving the tail and publishing the slot
C35_WitnessRecvSpinning ==
    /\ rcv.ready /\ rcv.held /\ ~rcv.weak
    /\ rcv.rounds = MaxRounds
    /\ sender_holds(index_of(rcv.pos))


\* ---------------------------------------------------------------------------
\* Outbound order per stream
\* ---------------------------------------------------------------------------

\* peer a has a stream before and after this step, and it is the same one
SameStream(a) ==
    /\ a \in DOMAIN streams /\ a \in DOMAIN streams'
    /\ streams'[a].sid = streams[a].sid

\* the message the user has successfully sent on the stream of peer a in
\* this step, if any
SentNow(a) ==
    IF usr_ret'.op = "try_send" /\ usr_ret'.res = "Ok" /\ usr_ret'.stream = streams[a].sid
    THEN <<usr_ret'.data>>
    ELSE <<>>

\* the numbers of the messages of a sequence grow: they are in send order
\* and none occurs twice
InSendOrder(q) == \A i, j \in DOMAIN q : i < j => q[i].id < q[j].id

\* C36: a stream's outbound messages form one queue, the buffered message
\* at its head.  In every step, for every stream that stays in the
\* collection, the messages it held before followed by what the user sent on
\* it in this step are the messages handed to try_send_to for its peer in
\* this step followed by the messages it holds afterwards; nothing is handed
\* to try_send_to for a peer whose stream did not stay; and the messages a
\* stream holds are in send order.  So what has been transmitted for a
\* stream is at every moment a prefix of what its user sent, in send order
\* and each once, and a rebuffered message goes out before any later one.
C36_OutboundOrder ==
    /\ [][/\ \A a \in Peers :
                SameStream(a) => OutBefore(a) \o SentNow(a) = WireTo(a) \o OutAfter(a)
          /\ \A i \in DOMAIN acc_ret'.wire : SameStream(acc_ret'.wire[i].addr)
         ]_strm_vars
    /\ [](\A a \in DOMAIN streams : InSendOrder(OutQueue(streams[a], links[streams[a].sid])))

\* a call has just transmitted an earlier message of a stream and was
\* refused the next one, which the stream now holds in its buffered slot
C36_Witness ==
    /\ acc_ret.call \in {"accept", "run"}
    /\ \E a \in DOMAIN streams :
          /\ streams[a].buffered /= NoData
          /\ \E i \in DOMAIN acc_ret.wire :
                /\ acc_ret.wire[i].addr = a
                /\ acc_ret.wire[i].data.id < streams[a].buffered.id


\* ---------------------------------------------------------------------------
\* The read budget of poll_events
\* ---------------------------------------------------------------------------

\* a step that is a call of poll_events(), returning or panicking
PollCalled == sock_ret'.op = "poll_events"

\* C40: in every call of poll_events on a buffer of n >= 1 events,
\* n / max(1, num_local_sockets) - num_remote_sockets is computed without
\* going below zero (the call does not panic on it and nothing wraps), and
\* reads_per_sock is the larger of 1 and that difference, so at least 1.
C40_ReadsPerSock ==
    [][PollCalled =>
          LET n == sock_ret'.arg
              quot == n \div max(1, num_local_sockets)
          IN  /\ n >= 1
              /\ quot >= num_remote_sockets
              /\ ~reads_underflow(SocketsNow, n)
              /\ ~panicked'
              /\ reads_per_sock(SocketsNow, n) = max(1, quot - num_remote_sockets)
              /\ reads_per_sock(SocketsNow, n) >= 1
      ]_sock_vars

\* what does hold: reads_per_sock is at least 1 in every call that does not
\* panic, and it is the larger of 1 and the difference whenever the
\* difference is not below zero
ReadsPerSockAtLeastOne ==
    [][(PollCalled /\ ~panicked') =>
          LET n == sock_ret'.arg
              quot == n \div max(1, num_local_sockets)
          IN  /\ reads_per_sock(SocketsNow, n) >= 1
              /\ quot >= num_remote_sockets =>
                    reads_per_sock(SocketsNow, n) = max(1, quot - num_remote_sockets)
              /\ quot < num_remote_sockets =>
                    /\ ~overflow_checks
                    /\ reads_per_sock(SocketsNow, n) = usize_MAX + 1 - (num_remote_sockets - quot)
      ]_sock_vars


\* ---------------------------------------------------------------------------
\* Consistency of the two socket tables
\* ---------------------------------------------------------------------------

\* the handle of the remote socket at place i of remote_sockets
RemoteHandle(i) == SOCK_INDEX_PIVOT + i - 1

\* every remote socket that is Some refers to a local socket that is Some
\* and whose map remotes sends the remote socket's address to its handle
RemotesAreMapped ==
    \A i \in DOMAIN remote_sockets :
        remote_sockets[i].some =>
            LET l == remote_sockets[i].local_socket_id
                a == remote_sockets[i].remote_address
            IN  /\ l < Len(sockets)
                /\ sockets[l + 1].some
                /\ a \in DOMAIN sockets[l + 1].remotes
                /\ sockets[l + 1].remotes[a] = RemoteHandle(i)

\* every entry of the map remotes of a local socket that is Some refers to
\* a remote socket that is Some for the same local socket and address
MapEntriesAreRemotes ==
    \A k \in DOMAIN sockets :
        sockets[k].some =>
            \A a \in DOMAIN sockets[k].remotes :
                LET h == sockets[k].remotes[a]
                IN  /\ h >= SOCK_INDEX_PIVOT
                    /\ h - SOCK_INDEX_PIVOT < Len(remote_sockets)
                    /\ remote_sockets[h - SOCK_INDEX_PIVOT + 1] = SomeRemote(k - 1, a)

\* local handles lie below the pivot, remote handles at or above it and
\* within usize
HandlesSplit ==
    /\ Len(sockets) <= SOCK_INDEX_PIVOT
    /\ SOCK_INDEX_PIVOT + Len(remote_sockets) - 1 <= usize_MAX
    /\ \A h \in handles :
          \/ h < SOCK_INDEX_PIVOT /\ h < Len(sockets)
          \/ h >= SOCK_INDEX_PIVOT /\ h - SOCK_INDEX_PIVOT < Len(remote_sockets)
    /\ (sock_ret.op \in {"add", "bind"} /\ sock_ret.ok) => sock_ret.res < SOCK_INDEX_PIVOT
    /\ (sock_ret.op = "connect" /\ sock_ret.ok) => sock_ret.res >= SOCK_INDEX_PIVOT

\* C39: after any sequence of bind, connect, poll_events and close, every
\* remote socket that is Some refers to a local socket that is Some and
\* whose map remotes sends its address back to its handle, every entry of
\* the map remotes of a local socket refers to a remote socket that is Some
\* for the same local socket and address, and local handles lie below the
\* pivot while remote handles lie at or above it.
C39_TableConsistency ==
    /\ RemotesAreMapped
    /\ MapEntriesAreRemotes
    /\ HandlesSplit

\* the part of it that holds in every state
MapBackedAndSplit == MapEntriesAreRemotes /\ HandlesSplit

=============================================================================
